---- MODULE Spec2Model ----
(***************************************************************************)
(* A model of the Ballistic-Intel pipeline: the DAG scheduler, the oracle  *)
(* client's sliding-window limiter, the two-tier relevance classifier, the *)
(* orchestrator's fan-out stages, and the entity resolver.                 *)
(*                                                                         *)
(* Each subsystem has its own specification (SpecDag, SpecLimiter, ...)    *)
(* over the variables it owns; the variables of the other subsystems stay  *)
(* at their idle values.                                                   *)
(***************************************************************************)
EXTENDS Integers, Sequences, FiniteSets, TLC

VARIABLES
    \* ---- orchestrator/dag.py: DAG, DAGNode
    node_names,       \* DAG.nodes keys, in insertion order
    dependencies,     \* DAGNode.dependencies, a list per node
    status,           \* DAGNode.status per node
    result,           \* DAGNode.result is set (TRUE) or None (FALSE)
    error,            \* DAGNode.error is set (TRUE) or None (FALSE)
    fn_calls,         \* how many times each node's fn was called
    execution_order,  \* local execution_order of DAG.execute
    pos,              \* index of the for loop over execution_order
    completed,        \* local set completed
    failed,           \* local set failed
    fail_fast,        \* argument fail_fast
    dag_pc,           \* where DAG.execute is
    \* ---- orchestrator/context.py: RunContext
    ctx_errors,       \* RunContext.errors
    \* ---- clients/gemini_client.py: GeminiClient and its callers
    request_timestamps, \* GeminiClient.request_timestamps
    clock,            \* time.time(), in whole seconds
    workers,          \* the threads that call generate_content
    lim_pc,           \* where each worker is inside generate_content
    attempt,          \* loop variable attempt of each worker
    local_now,        \* local now of _enforce_rate_limit, per worker
    filtered,         \* the purged list a worker has built but not yet stored
    wake,             \* when a sleeping worker's time.sleep ends
    call_result,      \* how each worker's last generate_content ended
    dispatched,       \* every self.model.generate_content call made: its time
    calls_left,       \* generate_content calls the callers still make
    failures_left,    \* transport errors the oracle still produces
    \* ---- services/relevance_classifier.py: RelevanceClassifier and its callers
    enable_cache,     \* RelevanceClassifier.enable_cache
    enable_fallback,  \* RelevanceClassifier.enable_fallback
    cache,            \* RelevanceClassifier._cache: content_hash -> (result, time)
    utcnow,           \* datetime.utcnow(), in whole seconds
    cls_workers,      \* the threads that call classify
    cls_pc,           \* where each worker is inside classify
    cls_item,         \* the item each worker is classifying
    cls_out,          \* how each worker's last classify call ended
    oracle_calls,     \* generate_content calls made, per content_hash
    cache_writes,     \* assignments to _cache[content_hash], per content_hash
    cls_calls_left,   \* classify calls the callers still make
    \* ---- orchestrator/runner.py: PipelineOrchestrator's stage functions
    is_dry_run,       \* RunContext.is_dry_run
    stage_pc,         \* where each node's stage function is
    fetched,          \* the documents an ingestion stage fetched, per node
    all_items,        \* the items a fan-out stage submitted, per node
    pending,          \* the futures of the running fan-out not yet completed
    results,          \* local results of each stage function
    item_failed,      \* the items whose per-item call raised, per node
    persist_calls,    \* how each node's storage call ended
    written,          \* the nodes whose output the storage wrote
    \* ---- logic/name_normalizer.py and services/entity_resolver.py
    nrm_name,         \* the string normalize is applied to
    normalized,       \* what the last normalize call returned
    passes,           \* how many times normalize has been applied
    input_names,      \* argument names of EntityResolver.resolve
    unique_names,     \* local unique_names, a list
    candidates,       \* local candidates, a list of sorted pairs
    raw_clusters,     \* what UnionFind.get_clusters returned
    clusters,         \* local clusters: canonical name -> members
    canonical_map,    \* local canonical_map: raw name -> canonical name
    entities,         \* the ResolvedEntity list resolve returns
    links,            \* the AliasLink list resolve returns
    res_pc,           \* where resolve is
    run_no,           \* which run of the resolver on this input this is
    first_entities,   \* what the first run returned
    \* ---- orchestrator/runner.py: main; the classifiers' oracle clients;
    \* ---- orchestrator/errors.py: the dead letter queue
    exit_code,        \* what main passed to sys.exit, -1 while it has not
    client_timestamps, \* request_timestamps of each classifier's GeminiClient
    caller,           \* the stage whose classifier is calling the oracle
    dlq_files,        \* the files under dlq_dir: path -> document
    dlq_calls,        \* the write_to_dlq calls made: the path returned, the document
    \* ---- clients/supabase_client.py: SupabaseClient.upsert under @retry
    upsert_pc,        \* where the decorated upsert is
    attempt_number,   \* the retry state's attempt_number
    upsert_log,       \* every .execute() made: its call, attempt, error, and the wait after it
    upsert_out,       \* how each upsert call ended, in call order
    \* ---- logic/clusterer.py: UnionFind
    uf_state,         \* a UnionFind: its keys in insertion order, parent, rank
    uf_pairs,         \* the pairs given to union so far
    uf_seen,          \* the elements given to find or union so far
    uf_clusters       \* what the last get_clusters returned

dagVars == <<node_names, dependencies, status, result, error, fn_calls,
             execution_order, pos, completed, failed, fail_fast, dag_pc>>

limVars == <<request_timestamps, clock, workers, lim_pc, attempt, local_now,
             filtered, wake, call_result, dispatched, calls_left, failures_left>>

clsVars == <<enable_cache, enable_fallback, cache, utcnow, cls_workers, cls_pc,
             cls_item, cls_out, oracle_calls, cache_writes, cls_calls_left>>

stgVars == <<is_dry_run, stage_pc, fetched, all_items, pending, results,
             item_failed, persist_calls, written>>

resVars == <<nrm_name, normalized, passes, input_names, unique_names, candidates,
             raw_clusters, clusters, canonical_map, entities, links, res_pc, run_no,
             first_entities>>

runVars == <<exit_code, client_timestamps, caller, dlq_files, dlq_calls>>

stoVars == <<upsert_pc, attempt_number, upsert_log, upsert_out>>

ufVars == <<uf_state, uf_pairs, uf_seen, uf_clusters>>

auxVars == <<stoVars, ufVars>>

vars == <<dagVars, ctx_errors, limVars, clsVars, stgVars, resVars, runVars, auxVars>>

\* what the actions of one subsystem leave alone
notDag == <<limVars, clsVars, stgVars, resVars, runVars, auxVars>>
notLim == <<dagVars, ctx_errors, clsVars, stgVars, resVars, runVars, auxVars>>
notCls == <<dagVars, ctx_errors, limVars, stgVars, resVars, runVars, auxVars>>
notStg == <<limVars, clsVars, resVars, runVars, auxVars>>
notRes == <<dagVars, ctx_errors, limVars, clsVars, stgVars, runVars, auxVars>>

(***************************************************************************)
(* Generic helpers.                                                        *)
(***************************************************************************)
Range(s) == {s[i] : i \in 1..Len(s)}

RECURSIVE SeqsUpTo(_, _)
\* all sequences over S of length at most n
SeqsUpTo(S, n) ==
    IF n = 0 THEN {<<>>}
    ELSE LET shorter == SeqsUpTo(S, n - 1)
         IN  shorter \cup {Append(s, x) : s \in {t \in shorter : Len(t) = n - 1}, x \in S}

Perms(S) == {s \in [1..Cardinality(S) -> S] : Range(s) = S}

\* a process that has not exited, built no classifier with a client of its
\* own, and wrote no dead letter
RunIdle ==
    /\ exit_code = 0 - 1
    /\ client_timestamps = <<>>
    /\ caller = "none"
    /\ dlq_files = <<>>
    /\ dlq_calls = <<>>

StoIdle ==
    /\ upsert_pc = "none"
    /\ attempt_number = 0
    /\ upsert_log = <<>>
    /\ upsert_out = <<>>

UfIdle ==
    /\ uf_state = <<>>
    /\ uf_pairs = {}
    /\ uf_seen = {}
    /\ uf_clusters = <<>>

\* the oracle client of a run that never calls it
LimIdle ==
    /\ request_timestamps = <<>>
    /\ clock = 0
    /\ workers = {}
    /\ lim_pc = <<>>
    /\ attempt = <<>>
    /\ local_now = <<>>
    /\ filtered = <<>>
    /\ wake = <<>>
    /\ call_result = <<>>
    /\ dispatched = <<>>
    /\ calls_left = 0
    /\ failures_left = 0

\* a process that resolves no names
ResIdle ==
    /\ nrm_name = ""
    /\ normalized = ""
    /\ passes = 0
    /\ input_names = <<>>
    /\ unique_names = <<>>
    /\ candidates = <<>>
    /\ raw_clusters = <<>>
    /\ clusters = <<>>
    /\ canonical_map = <<>>
    /\ entities = <<>>
    /\ links = <<>>
    /\ res_pc = "none"
    /\ run_no = 0
    /\ first_entities = {}

\* a DAG whose work functions are not the orchestrator's stage functions
StgIdle ==
    /\ is_dry_run = FALSE
    /\ stage_pc = <<>>
    /\ fetched = <<>>
    /\ all_items = <<>>
    /\ pending = {}
    /\ results = <<>>
    /\ item_failed = <<>>
    /\ persist_calls = <<>>
    /\ written = {}

\* a process that builds no classifier
ClsIdle ==
    /\ enable_cache = FALSE
    /\ enable_fallback = FALSE
    /\ cache = <<>>
    /\ utcnow = 0
    /\ cls_workers = {}
    /\ cls_pc = <<>>
    /\ cls_item = <<>>
    /\ cls_out = <<>>
    /\ oracle_calls = <<>>
    /\ cache_writes = <<>>
    /\ cls_calls_left = 0

\* a process that builds no DAG
DagIdle ==
    /\ node_names = <<>>
    /\ dependencies = <<>>
    /\ status = <<>>
    /\ result = <<>>
    /\ error = <<>>
    /\ fn_calls = <<>>
    /\ execution_order = <<>>
    /\ pos = 0
    /\ completed = {}
    /\ failed = {}
    /\ fail_fast = FALSE
    /\ dag_pc = "none"

(***************************************************************************)
(* DAG scheduler (orchestrator/dag.py).                                    *)
(* Node names are 1..NumNodes; their numeric order stands for the          *)
(* lexicographic order of the names.  MissingNode is a name no node has.   *)
(***************************************************************************)
NumNodes == 3
MaxDeps == 2
MissingNode == NumNodes + 1

NodeIds == 1..NumNodes

\* dependency lists: duplicates allowed, written in non-decreasing order
DepLists == {d \in SeqsUpTo(NodeIds \cup {MissingNode}, MaxDeps) :
                \A i \in 1..Len(d) - 1 : d[i] <= d[i + 1]}

\* DAG.validate, first half: every dependency names a node of the DAG
deps_exist(names, deps) ==
    \A i \in 1..Len(names) :
        \A j \in 1..Len(deps[names[i]]) : deps[names[i]][j] \in Range(names)

RECURSIVE has_cycle(_, _, _, _), has_cycle_loop(_, _, _, _, _)
\* the nested has_cycle of DAG.validate: marks node_name visited and on the
\* recursion stack, walks its dependencies, and takes it off the stack again
\* unless a cycle was found.  Returns the flag with the two sets as left behind.
has_cycle(deps, node_name, visited, rec_stack) ==
    LET r == has_cycle_loop(deps, node_name, 1,
                            visited \cup {node_name}, rec_stack \cup {node_name})
    IN  IF r.found THEN r
        ELSE [found |-> FALSE, visited |-> r.visited,
              rec_stack |-> r.rec_stack \ {node_name}]

\* the for loop over self.nodes[node_name].dependencies inside has_cycle
has_cycle_loop(deps, node_name, j, visited, rec_stack) ==
    IF j > Len(deps[node_name])
    THEN [found |-> FALSE, visited |-> visited, rec_stack |-> rec_stack]
    ELSE LET dep == deps[node_name][j]
         IN  IF dep \notin visited
             THEN LET r == has_cycle(deps, dep, visited, rec_stack)
                  IN  IF r.found THEN r
                      ELSE has_cycle_loop(deps, node_name, j + 1, r.visited, r.rec_stack)
             ELSE IF dep \in rec_stack
                  THEN [found |-> TRUE, visited |-> visited, rec_stack |-> rec_stack]
                  ELSE has_cycle_loop(deps, node_name, j + 1, visited, rec_stack)

\* as validate_cycles, but the search starts at the first node only
validate_cycles_from_first(names, deps, i, visited) ==
    IF i > Len(names) THEN FALSE
    ELSE has_cycle(deps, names[i], visited, {}).found

RECURSIVE validate_cycles(_, _, _, _)
\* DAG.validate, second half: the loop over self.nodes that starts a DFS at
\* every node not yet visited; TRUE when it raises "DAG contains a cycle"
validate_cycles(names, deps, i, visited) ==
    IF i > Len(names) THEN FALSE
    ELSE IF names[i] \in visited THEN validate_cycles(names, deps, i + 1, visited)
    ELSE LET r == has_cycle(deps, names[i], visited, {})
         IN  IF r.found THEN TRUE
             ELSE validate_cycles(names, deps, i + 1, r.visited)

\* DAG.validate: "ok", or the ValueError it raises
validate(names, deps) ==
    IF ~deps_exist(names, deps) THEN "missing_dependency"
    ELSE IF validate_cycles(names, deps, 1, {}) THEN "cycle"
    ELSE "ok"

\* in_degree as get_execution_order counts it: one per entry of the
\* dependency list, a repeated entry counted each time
in_degree0(deps) == [n \in DOMAIN deps |-> Len(deps[n])]

RECURSIVE kahn_release(_, _, _, _, _, _)
\* the inner loop of get_execution_order over self.nodes.values(): every node
\* that lists current loses one in-degree, and joins the queue at zero
kahn_release(names, deps, current, i, in_degree, queue) ==
    IF i > Len(names) THEN [in_degree |-> in_degree, queue |-> queue]
    ELSE LET n == names[i]
         IN  IF current \in Range(deps[n])
             THEN LET d == in_degree[n] - 1
                  IN  kahn_release(names, deps, current, i + 1,
                                   [in_degree EXCEPT ![n] = d],
                                   IF d = 0 THEN Append(queue, n) ELSE queue)
             ELSE kahn_release(names, deps, current, i + 1, in_degree, queue)

RECURSIVE kahn_loop_unsorted(_, _, _, _, _)
\* as kahn_loop, but the queue is popped as it stands, without sorting it
kahn_loop_unsorted(names, deps, in_degree, queue, out) ==
    IF queue = <<>> THEN out
    ELSE LET current == Head(queue)
             r == kahn_release(names, deps, current, 1, in_degree, Tail(queue))
         IN  kahn_loop_unsorted(names, deps, r.in_degree, r.queue, Append(out, current))

RECURSIVE kahn_loop(_, _, _, _, _)
\* the while loop of get_execution_order: sort the queue, pop its head
kahn_loop(names, deps, in_degree, queue, out) ==
    IF queue = <<>> THEN out
    ELSE LET sorted == SortSeq(queue, LAMBDA a, b : a < b)
             current == Head(sorted)
             r == kahn_release(names, deps, current, 1, in_degree, Tail(sorted))
         IN  kahn_loop(names, deps, r.in_degree, r.queue, Append(out, current))

\* DAG.get_execution_order: the order; it raises when the sort comes up short
get_execution_order(names, deps) ==
    LET deg == in_degree0(deps)
        queue == SelectSeq(names, LAMBDA n : deg[n] = 0)
        out == kahn_loop(names, deps, deg, queue, <<>>)
    IN  [raises |-> Len(out) # Len(names), order |-> out]

\* RunContext.add_error: one entry appended to the error log
add_error(log, node, item_id) == Append(log, [node |-> node, item_id |-> item_id])

\* a freshly built DAG: every DAGNode pending, no result, no error
DagInit ==
    /\ node_names \in Perms(NodeIds)
    /\ dependencies \in [NodeIds -> DepLists]
    /\ fail_fast \in BOOLEAN
    /\ status = [n \in NodeIds |-> "pending"]
    /\ result = [n \in NodeIds |-> FALSE]
    /\ error = [n \in NodeIds |-> FALSE]
    /\ fn_calls = [n \in NodeIds |-> 0]
    /\ execution_order = <<>>
    /\ pos = 0
    /\ completed = {}
    /\ failed = {}
    /\ dag_pc = "start"

\* the node the for loop of DAG.execute is at
current_node == execution_order[pos]

\* DAG.execute up to its loop: validate, get_execution_order, the two empty
\* sets.  Either call raising ends execute with a ValueError.
ExecuteStart ==
    /\ dag_pc = "start"
    /\ IF validate(node_names, dependencies) # "ok"
       THEN /\ dag_pc' = "raised"
            /\ UNCHANGED <<execution_order, pos>>
       ELSE LET sorted == get_execution_order(node_names, dependencies)
            IN  IF sorted.raises
                THEN /\ dag_pc' = "raised"
                     /\ UNCHANGED <<execution_order, pos>>
                ELSE /\ execution_order' = sorted.order
                     /\ pos' = 1
                     /\ dag_pc' = "loop"
    /\ completed' = {}
    /\ failed' = {}
    /\ UNCHANGED <<node_names, dependencies, status, result, error, fn_calls,
                   fail_fast, ctx_errors>>
    /\ UNCHANGED notDag

\* the skip test of DAG.execute: some dependency is in failed
dependency_failed(n) == \E j \in 1..Len(dependencies[n]) : dependencies[n][j] \in failed

\* one loop iteration that skips: a dependency failed
SkipNode ==
    /\ dag_pc = "loop"
    /\ pos <= Len(execution_order)
    /\ dependency_failed(current_node)
    /\ status' = [status EXCEPT ![current_node] = "skipped"]
    /\ pos' = pos + 1
    /\ UNCHANGED <<node_names, dependencies, result, error, fn_calls, execution_order,
                   completed, failed, fail_fast, dag_pc, ctx_errors>>
    /\ UNCHANGED notDag

\* as StartNode, but fn is called while the node is still pending
StartNodeStillPending ==
    /\ dag_pc = "loop"
    /\ pos <= Len(execution_order)
    /\ ~dependency_failed(current_node)
    /\ fn_calls' = [fn_calls EXCEPT ![current_node] = @ + 1]
    /\ dag_pc' = "running"
    /\ UNCHANGED <<node_names, dependencies, status, result, error, execution_order,
                   pos, completed, failed, fail_fast, ctx_errors>>
    /\ UNCHANGED notDag

\* DAGNode.execute up to the call of fn: the node is running
StartNode ==
    /\ dag_pc = "loop"
    /\ pos <= Len(execution_order)
    /\ ~dependency_failed(current_node)
    /\ status' = [status EXCEPT ![current_node] = "running"]
    /\ fn_calls' = [fn_calls EXCEPT ![current_node] = @ + 1]
    /\ dag_pc' = "running"
    /\ UNCHANGED <<node_names, dependencies, result, error, execution_order, pos,
                   completed, failed, fail_fast, ctx_errors>>
    /\ UNCHANGED notDag

\* fn returned: DAGNode.execute stores the result, DAG.execute adds to completed
NodeSucceeds ==
    /\ dag_pc = "running"
    /\ result' = [result EXCEPT ![current_node] = TRUE]
    /\ status' = [status EXCEPT ![current_node] = "success"]
    /\ completed' = completed \cup {current_node}
    /\ pos' = pos + 1
    /\ dag_pc' = "loop"
    /\ UNCHANGED <<node_names, dependencies, error, fn_calls, execution_order,
                   failed, fail_fast, ctx_errors>>
    /\ UNCHANGED notDag

\* as NodeFails, but the loop goes on to the next node whatever fail_fast is
NodeFailsContinues ==
    /\ dag_pc = "running"
    /\ status' = [status EXCEPT ![current_node] = "failed"]
    /\ error' = [error EXCEPT ![current_node] = TRUE]
    /\ failed' = failed \cup {current_node}
    /\ ctx_errors' = add_error(ctx_errors, current_node, "N/A")
    /\ dag_pc' = "loop"
    /\ pos' = pos + 1
    /\ UNCHANGED <<node_names, dependencies, result, fn_calls, execution_order,
                   completed, fail_fast>>
    /\ UNCHANGED notDag

\* fn raised: DAGNode.execute marks the node failed and raises
\* AgentExecutionError; DAG.execute logs it and, with fail_fast, breaks
NodeFails ==
    /\ dag_pc = "running"
    /\ status' = [status EXCEPT ![current_node] = "failed"]
    /\ error' = [error EXCEPT ![current_node] = TRUE]
    /\ failed' = failed \cup {current_node}
    /\ ctx_errors' = add_error(ctx_errors, current_node, "N/A")
    /\ IF fail_fast
       THEN /\ dag_pc' = "done"
            /\ pos' = pos
       ELSE /\ dag_pc' = "loop"
            /\ pos' = pos + 1
    /\ UNCHANGED <<node_names, dependencies, result, fn_calls, execution_order,
                   completed, fail_fast>>
    /\ UNCHANGED notDag

\* the loop ran out: DAG.execute builds the summary and returns
ExecuteReturns ==
    /\ dag_pc = "loop"
    /\ pos > Len(execution_order)
    /\ dag_pc' = "done"
    /\ UNCHANGED <<node_names, dependencies, status, result, error, fn_calls,
                   execution_order, pos, completed, failed, fail_fast, ctx_errors>>
    /\ UNCHANGED notDag

NextDag ==
    \/ ExecuteStart
    \/ SkipNode
    \/ StartNode
    \/ NodeSucceeds
    \/ NodeFails
    \/ ExecuteReturns

InitDag ==
    DagInit /\ ctx_errors = <<>> /\ LimIdle /\ ClsIdle /\ StgIdle /\ ResIdle /\ RunIdle /\ StoIdle /\ UfIdle

SpecDag == InitDag /\ [][NextDag]_vars

(***************************************************************************)
(* Claims about the DAG scheduler.                                         *)
(***************************************************************************)
RECURSIVE depends_on(_, _, _)
\* a depends on b through a chain of at most k dependency edges
depends_on(a, b, k) ==
    /\ k > 0
    /\ \E j \in 1..Len(dependencies[a]) :
          LET d == dependencies[a][j]
          IN  d \in NodeIds /\ (d = b \/ depends_on(d, b, k - 1))

\* C1: with fail_fast = false, once DAG.execute has returned, every node that
\* depends directly or transitively on a failed node is skipped (so not
\* success) and its work function was never called.
C1_DependentsSkipped ==
    (dag_pc = "done" /\ ~fail_fast) =>
        \A a, b \in NodeIds :
            (status[b] = "failed" /\ depends_on(a, b, NumNodes)) =>
                (status[a] = "skipped" /\ fn_calls[a] = 0)

\* the nodes that can be taken once the nodes in done have been: not taken
\* yet, and every dependency taken
ready_after(done) ==
    {n \in NodeIds \ done : \A j \in 1..Len(dependencies[n]) : dependencies[n][j] \in done}

\* C11: the order get_execution_order returns holds every node exactly once,
\* each node after all of its dependencies, and is fixed by the node set and
\* the dependency relation alone, whatever the order the nodes were added
\* in: at every position stands the smallest node that was ready there.
C11_DeterministicTopologicalOrder ==
    dag_pc \notin {"start", "raised"} =>
        /\ Len(execution_order) = NumNodes
        /\ \A p \in 1..Len(execution_order) :
              LET done == {execution_order[q] : q \in 1..(p - 1)}
              IN  /\ execution_order[p] \in ready_after(done)
                  /\ \A n \in ready_after(done) : execution_order[p] <= n

\* an order was returned for nodes added in another order than their names',
\* with two nodes ready at the start and a dependency that puts a node
\* behind a node with a greater name
C11_Witness ==
    /\ dag_pc = "loop"
    /\ \E i \in 1..(NumNodes - 1) : node_names[i] > node_names[i + 1]
    /\ Cardinality(ready_after({})) = 2
    /\ \E p, q \in 1..Len(execution_order) :
          p < q /\ execution_order[p] > execution_order[q]

\* some node depends on itself through one or more dependency edges
cyclic == \E n \in NodeIds : depends_on(n, n, NumNodes)

\* C12: for every graph with a dependency cycle of any length, a node that
\* depends on itself included, validate raises, and execute raises before
\* any node's work function is called, so that every node stays pending.
C12_CyclesRejected ==
    cyclic =>
        /\ validate(node_names, dependencies) # "ok"
        /\ dag_pc # "start" =>
              /\ dag_pc = "raised"
              /\ \A n \in NodeIds : fn_calls[n] = 0 /\ status[n] = "pending"

\* execute raised on a graph whose shortest cycle runs through every node
C12_Witness ==
    /\ dag_pc = "raised"
    /\ validate(node_names, dependencies) = "cycle"
    /\ \A n \in NodeIds : depends_on(n, n, NumNodes) /\ ~depends_on(n, n, NumNodes - 1)
    /\ \A n \in NodeIds : fn_calls[n] = 0 /\ status[n] = "pending"

\* no node that n depends on, directly or transitively, has failed
no_dependency_failed(n) ==
    \A b \in NodeIds : depends_on(n, b, NumNodes) => status[b] # "failed"

\* C13: with fail_fast = true, once a node has failed no work function is
\* called any more in that run; with fail_fast = false, every node none of
\* whose direct or transitive dependencies failed has had its work function
\* called, exactly once, by the time execute returns.
C13_FailFast ==
    /\ [][(fail_fast /\ \E n \in NodeIds : status[n] = "failed") => fn_calls' = fn_calls]_vars
    /\ [](  (dag_pc = "done" /\ ~fail_fast) =>
               \A n \in NodeIds : no_dependency_failed(n) => fn_calls[n] = 1)

\* without fail_fast, a node failed, a node that depends on it was skipped,
\* and a sibling later in the order was still run to success
C13_Witness ==
    /\ dag_pc = "done"
    /\ ~fail_fast
    /\ \E p, q, r \in 1..Len(execution_order) :
          /\ p < q
          /\ status[execution_order[p]] = "failed"
          /\ status[execution_order[q]] = "success"
          /\ fn_calls[execution_order[q]] = 1
          /\ status[execution_order[r]] = "skipped"

\* the status changes DAGNode.execute and DAG.execute make
StatusSteps ==
    {<<"pending", "running">>, <<"running", "success">>, <<"running", "failed">>,
     <<"pending", "skipped">>}

\* C21: during one DAG.execute that starts with every node pending, a node's
\* status changes only pending -> running -> success, pending -> running ->
\* failed or pending -> skipped; success, failed and skipped are never left;
\* a result is set only on a node that ends success and an error only on a
\* node that ends failed.
C21_StatusLifecycle ==
    /\ [][\A n \in NodeIds :
            /\ status'[n] # status[n] => <<status[n], status'[n]>> \in StatusSteps
            /\ result'[n] # result[n] => result'[n] /\ status'[n] = "success"
            /\ error'[n] # error[n] => error'[n] /\ status'[n] = "failed"]_vars
    /\ [](\A n \in NodeIds :
            /\ result[n] => status[n] = "success"
            /\ error[n] => status[n] = "failed")

\* execute returned with one node success, one failed and one skipped
C21_Witness ==
    /\ dag_pc = "done"
    /\ \E a, b, c \in NodeIds :
          /\ status[a] = "success" /\ result[a] /\ ~error[a]
          /\ status[b] = "failed" /\ error[b] /\ ~result[b]
          /\ status[c] = "skipped" /\ ~result[c] /\ ~error[c] /\ fn_calls[c] = 0

\* C29: for every graph validate accepts, a dependency list that names a
\* node more than once included, get_execution_order returns all the nodes
\* and execute runs the graph instead of raising.
C29_AcceptedGraphsRun ==
    (validate(node_names, dependencies) = "ok" /\ dag_pc # "start") =>
        /\ dag_pc # "raised"
        /\ Range(execution_order) = NodeIds
        /\ Len(execution_order) = NumNodes

(***************************************************************************)
(* Rate-limited oracle client (clients/gemini_client.py).                  *)
(* Time is counted in whole seconds.  The clock moves when a sleeping      *)
(* worker's time.sleep ends and when the callers pause between calls.      *)
(***************************************************************************)
max_rpm == 15
WindowSeconds == 60
max_retries == 3

NumWorkers == 2
MaxCalls == 16
MaxFailures == 3
MaxTime == 64
MaxCallsMT == 3

WorkerIds == 1..NumWorkers

\* the list comprehension of _enforce_rate_limit: entries younger than 60 s
purge(timestamps, now) == SelectSeq(timestamps, LAMBDA ts : now - ts < WindowSeconds)

\* a backoff that grows by two seconds per attempt instead of doubling
backoff_linear(a) == 2 * a

\* 2 ** attempt, the backoff of generate_content
backoff(a) == 2 ^ a

\* a client that has served prior calls in the current second (none right
\* after GeminiClient.__init__), and no caller inside generate_content
LimiterInit(callers, prior, calls, failures) ==
    /\ request_timestamps = [i \in 1..prior |-> 0]
    /\ clock = 0
    /\ workers = callers
    /\ lim_pc = [w \in callers |-> "idle"]
    /\ attempt = [w \in callers |-> 0]
    /\ local_now = [w \in callers |-> 0]
    /\ filtered = [w \in callers |-> <<>>]
    /\ wake = [w \in callers |-> 0]
    /\ call_result = [w \in callers |-> "none"]
    /\ dispatched = [i \in 1..prior |-> 0]
    /\ calls_left = calls
    /\ failures_left = failures

\* generate_content is entered and _enforce_rate_limit reads the clock and
\* builds the purged list from the list it finds
EnterAndPurge(w) ==
    /\ lim_pc[w] = "idle"
    /\ calls_left > 0
    /\ calls_left' = calls_left - 1
    /\ local_now' = [local_now EXCEPT ![w] = clock]
    /\ filtered' = [filtered EXCEPT ![w] = purge(request_timestamps, clock)]
    /\ attempt' = [attempt EXCEPT ![w] = 0]
    /\ call_result' = [call_result EXCEPT ![w] = "none"]
    /\ lim_pc' = [lim_pc EXCEPT ![w] = "store"]
    /\ UNCHANGED <<request_timestamps, clock, workers, wake, dispatched, failures_left>>
    /\ UNCHANGED notLim

\* _enforce_rate_limit stores the purged list in self.request_timestamps
StorePurged(w) ==
    /\ lim_pc[w] = "store"
    /\ request_timestamps' = filtered[w]
    /\ lim_pc' = [lim_pc EXCEPT ![w] = "check"]
    /\ UNCHANGED <<clock, workers, attempt, local_now, filtered, wake, call_result,
                   dispatched, calls_left, failures_left>>
    /\ UNCHANGED notLim

\* _enforce_rate_limit tests the window: full means sleeping until the oldest
\* entry is 60 s old, otherwise generate_content goes on to its loop
CheckWindow(w) ==
    /\ lim_pc[w] = "check"
    /\ IF Len(request_timestamps) >= max_rpm
       THEN LET oldest_request == request_timestamps[1]
                sleep_time == WindowSeconds - (local_now[w] - oldest_request)
            IN  IF sleep_time > 0
                THEN /\ wake' = [wake EXCEPT ![w] = clock + sleep_time]
                     /\ lim_pc' = [lim_pc EXCEPT ![w] = "limit_sleep"]
                ELSE /\ lim_pc' = [lim_pc EXCEPT ![w] = "attempt"]
                     /\ UNCHANGED wake
       ELSE /\ lim_pc' = [lim_pc EXCEPT ![w] = "attempt"]
            /\ UNCHANGED wake
    /\ UNCHANGED <<request_timestamps, clock, workers, attempt, local_now, filtered,
                   call_result, dispatched, calls_left, failures_left>>
    /\ UNCHANGED notLim

\* time.sleep(sleep_time) of _enforce_rate_limit ends; it returns
LimitSleepEnds(w) ==
    /\ lim_pc[w] = "limit_sleep"
    /\ wake[w] <= MaxTime
    /\ clock' = IF clock < wake[w] THEN wake[w] ELSE clock
    /\ lim_pc' = [lim_pc EXCEPT ![w] = "attempt"]
    /\ UNCHANGED <<request_timestamps, workers, attempt, local_now, filtered, wake,
                   call_result, dispatched, calls_left, failures_left>>
    /\ UNCHANGED notLim

\* one pass of the retry loop up to the API call: the timestamp is appended
\* and self.model.generate_content is called
Dispatch(w) ==
    /\ lim_pc[w] = "attempt"
    /\ request_timestamps' = Append(request_timestamps, clock)
    /\ dispatched' = Append(dispatched, clock)
    /\ lim_pc' = [lim_pc EXCEPT ![w] = "in_flight"]
    /\ UNCHANGED <<clock, workers, attempt, local_now, filtered, wake, call_result,
                   calls_left, failures_left>>
    /\ UNCHANGED notLim

\* the API call returned: generate_content returns response.text
ApiReturns(w) ==
    /\ lim_pc[w] = "in_flight"
    /\ call_result' = [call_result EXCEPT ![w] = "returned"]
    /\ lim_pc' = [lim_pc EXCEPT ![w] = "idle"]
    /\ UNCHANGED <<request_timestamps, clock, workers, attempt, local_now, filtered,
                   wake, dispatched, calls_left, failures_left>>
    /\ UNCHANGED notLim

\* the API call raised: sleep 2 ** attempt and retry, or, on the last
\* attempt, raise
ApiRaises(w) ==
    /\ lim_pc[w] = "in_flight"
    /\ failures_left > 0
    /\ failures_left' = failures_left - 1
    /\ IF attempt[w] < max_retries - 1
       THEN /\ wake' = [wake EXCEPT ![w] = clock + backoff(attempt[w])]
            /\ lim_pc' = [lim_pc EXCEPT ![w] = "backoff"]
            /\ UNCHANGED call_result
       ELSE /\ call_result' = [call_result EXCEPT ![w] = "raised"]
            /\ lim_pc' = [lim_pc EXCEPT ![w] = "idle"]
            /\ UNCHANGED wake
    /\ UNCHANGED <<request_timestamps, clock, workers, attempt, local_now, filtered,
                   dispatched, calls_left>>
    /\ UNCHANGED notLim

\* time.sleep(wait_time) of the retry loop ends; the loop takes the next attempt
BackoffEnds(w) ==
    /\ lim_pc[w] = "backoff"
    /\ wake[w] <= MaxTime
    /\ clock' = IF clock < wake[w] THEN wake[w] ELSE clock
    /\ attempt' = [attempt EXCEPT ![w] = @ + 1]
    /\ lim_pc' = [lim_pc EXCEPT ![w] = "attempt"]
    /\ UNCHANGED <<request_timestamps, workers, local_now, filtered, wake, call_result,
                   dispatched, calls_left, failures_left>>
    /\ UNCHANGED notLim

\* the callers make no call for a whole window
Pause ==
    /\ \A w \in workers : lim_pc[w] = "idle"
    /\ clock + WindowSeconds <= MaxTime
    /\ clock' = clock + WindowSeconds
    /\ UNCHANGED <<request_timestamps, workers, lim_pc, attempt, local_now, filtered,
                   wake, call_result, dispatched, calls_left, failures_left>>
    /\ UNCHANGED notLim

NextLimiter ==
    \/ \E w \in workers : EnterAndPurge(w)
    \/ \E w \in workers : StorePurged(w)
    \/ \E w \in workers : CheckWindow(w)
    \/ \E w \in workers : LimitSleepEnds(w)
    \/ \E w \in workers : Dispatch(w)
    \/ \E w \in workers : ApiReturns(w)
    \/ \E w \in workers : ApiRaises(w)
    \/ \E w \in workers : BackoffEnds(w)
    \/ Pause

\* one caller: the calls of a client follow one another
InitLimiter ==
    /\ LimiterInit({1}, 0, MaxCalls, MaxFailures)
    /\ DagIdle /\ ctx_errors = <<>> /\ ClsIdle /\ StgIdle /\ ResIdle /\ RunIdle /\ StoIdle /\ UfIdle

SpecLimiter == InitLimiter /\ [][NextLimiter]_vars

\* the fan-out workers of a stage call the one client concurrently; the window
\* is empty, or one short of full, or full from the calls made just before
InitLimiterMT ==
    /\ \E prior \in {0, max_rpm - 1, max_rpm} :
          LimiterInit(WorkerIds, prior, MaxCallsMT, 1)
    /\ DagIdle
    /\ ctx_errors = <<>>
    /\ ClsIdle
    /\ StgIdle
    /\ ResIdle
    /\ RunIdle /\ StoIdle /\ UfIdle

SpecLimiterMT == InitLimiterMT /\ [][NextLimiter]_vars

(***************************************************************************)
(* Claims about the oracle client.                                         *)
(***************************************************************************)
\* the attempts dispatched in the 60 s up to and including attempt i
attempts_in_window(i) ==
    Cardinality({j \in 1..i : dispatched[i] - dispatched[j] < WindowSeconds})

\* C2: counting every dispatched attempt, first attempts and retries alike,
\* no 60-second window holds more than max_rpm attempts of one client.
C2_WindowBound ==
    \A i \in 1..Len(dispatched) : attempts_in_window(i) <= max_rpm

\* how often time t occurs in a list of timestamps
occurrences(timestamps, t) == Cardinality({i \in 1..Len(timestamps) : timestamps[i] = t})

\* C3: under every interleaving of the workers, purge, check and record act
\* atomically on the window: every attempt dispatched in the last 60 s is
\* still recorded in request_timestamps, and the window bound holds.
C3_AtomicWindow ==
    /\ \A i \in 1..Len(dispatched) :
          clock - dispatched[i] < WindowSeconds =>
              occurrences(request_timestamps, dispatched[i]) >= occurrences(dispatched, dispatched[i])
    /\ C2_WindowBound

\* worker w's step is a pass of the retry loop reaching the API call
dispatches(w) == lim_pc[w] = "attempt" /\ lim_pc'[w] = "in_flight"

\* C22: one generate_content call makes at most max_retries attempts; it
\* returns at the first attempt that succeeds and makes no further one; after
\* a failed attempt it sleeps 2^attempt seconds (attempt counted from 0)
\* before the next; it raises once all attempts have failed; and every
\* attempt, failed or not, appends exactly one timestamp to the window.
C22_RetryWithBackoff ==
    /\ [][\A w \in workers :
            /\ dispatches(w) =>
                  /\ attempt[w] < max_retries
                  /\ request_timestamps' = Append(request_timestamps, clock)
            /\ dispatched' # dispatched =>
                  /\ \E v \in workers : dispatches(v)
                  /\ dispatched' = Append(dispatched, clock)
            /\ (request_timestamps' # request_timestamps /\ ~dispatches(w)) =>
                  Len(request_timestamps') <= Len(request_timestamps)
            /\ (lim_pc[w] = "in_flight" /\ lim_pc'[w] # "in_flight") =>
                  \/ /\ call_result'[w] = "returned"
                     /\ lim_pc'[w] = "idle"
                     /\ failures_left' = failures_left
                  \/ /\ failures_left' = failures_left - 1
                     /\ IF attempt[w] < max_retries - 1
                        THEN /\ lim_pc'[w] = "backoff"
                             /\ wake'[w] = clock + 2 ^ attempt[w]
                             /\ call_result'[w] = "none"
                        ELSE /\ lim_pc'[w] = "idle"
                             /\ call_result'[w] = "raised"
            /\ (lim_pc[w] = "backoff" /\ lim_pc'[w] # "backoff") =>
                  /\ lim_pc'[w] = "attempt"
                  /\ attempt'[w] = attempt[w] + 1
                  /\ clock' >= wake[w]
            /\ (lim_pc[w] = "idle" /\ call_result[w] # "none") =>
                  (dispatched' = dispatched \/ call_result'[w] = "none")]_vars
    /\ [](\A w \in workers :
            (lim_pc[w] = "in_flight" /\ attempt[w] > 0) =>
                /\ Len(dispatched) > attempt[w]
                /\ dispatched[Len(dispatched)] - dispatched[Len(dispatched) - 1]
                      = 2 ^ (attempt[w] - 1))

\* a call has raised after max_retries attempts made 1 s and then 2 s apart
C22_Witness ==
    \E w \in workers :
        /\ lim_pc[w] = "idle"
        /\ call_result[w] = "raised"
        /\ attempt[w] = max_retries - 1
        /\ Len(dispatched) >= max_retries
        /\ Len(request_timestamps) >= max_retries
        /\ dispatched[Len(dispatched)] - dispatched[Len(dispatched) - 1] = 2
        /\ dispatched[Len(dispatched) - 1] - dispatched[Len(dispatched) - 2] = 1

(***************************************************************************)
(* services/relevance_classifier.py, logic/relevance_heuristics.py,        *)
(* models/relevance.py: the two-tier classifier.  Scores are in tenths.    *)
(* An item is its id, its source type and its content; the content stands  *)
(* for a title and abstract short enough not to be truncated.              *)
(***************************************************************************)
CACHE_TTL_SECONDS == 3600
MIN_RELEVANCE_SCORE == 6

NumItemIds == 2
NumContents == 1
MaxHits == 2
MaxClassifyCallsMT == 2
MaxClassifyCalls == 2

Items == [id : 1..NumItemIds, source_type : {"patent", "news"}, content : 1..NumContents]

\* what the keyword and CPC scans find in an item's text
Signals == [cpc : 0..MaxHits, high : 0..MaxHits, med : 0..MaxHits, neg : BOOLEAN]

\* what a parsed oracle response can hold; the score is whatever the oracle wrote
LlmResponses == [is_relevant : BOOLEAN, score : {0 - 1, MIN_RELEVANCE_SCORE, 11}]

\* as context_hash, but the item's id is hashed along with its context
context_hash_with_id(item) ==
    [of |-> "context", source_type |-> item.source_type, content |-> item.content,
     id |-> item.id]

\* sha256 of the prepared context, which starts with "Type: <source type>"
context_hash(item) ==
    [of |-> "context", source_type |-> item.source_type, content |-> item.content]

\* sha256 of the lowercased text the heuristics scan
text_hash(item) ==
    [of |-> "text", source_type |-> item.source_type, content |-> item.content]

clamp_score(score) ==
    IF score < 0 THEN 0 ELSE IF score > 10 THEN 10 ELSE score

RECURSIVE keyword_loop(_, _, _)
\* for keyword in ...: if keyword in text: score += weight; if score > 1.0: break
keyword_loop(score, hits, weight) ==
    IF hits = 0 THEN score
    ELSE IF score + weight > 10 THEN score + weight
    ELSE keyword_loop(score + weight, hits - 1, weight)

\* RelevanceResult.__post_init__ clamps the score once more
RelevanceResult(item_id, source_type, is_relevant, score, model, hash) ==
    [item_id |-> item_id, source_type |-> source_type, is_relevant |-> is_relevant,
     score |-> clamp_score(score), model |-> model, hash |-> hash]

create_heuristic(item, score) ==
    RelevanceResult(item.id, item.source_type, score >= MIN_RELEVANCE_SCORE, score,
                    "heuristic-v1", text_hash(item))

classify_patent(item, sig) ==
    LET after_cpc  == 4 * sig.cpc
        after_high == keyword_loop(after_cpc, sig.high, 3)
        after_med  == keyword_loop(after_high, sig.med, 1)
        penalised  == IF sig.neg THEN after_med - 2 ELSE after_med
    IN  create_heuristic(item, clamp_score(penalised))

classify_news(item, sig) ==
    LET min(a, b)  == IF a < b THEN a ELSE b
        after_high == IF sig.high > 0 THEN min(6, sig.high * 2) ELSE 0
        after_med  == IF sig.med > 0 THEN after_high + min(3, sig.med) ELSE after_high
        penalised  == IF sig.neg THEN after_med - 3 ELSE after_med
    IN  create_heuristic(item, clamp_score(penalised))

heuristic_result(item, sig) ==
    IF item.source_type = "patent" THEN classify_patent(item, sig)
    ELSE classify_news(item, sig)

create_from_llm_response(item, llm_response) ==
    RelevanceResult(item.id, item.source_type, llm_response.is_relevant,
                    llm_response.score, "gemini-2.5-flash", context_hash(item))

NoItem == [id |-> 0, source_type |-> "none", content |-> 0]
NoResult == RelevanceResult(0, "none", FALSE, 0, "none", context_hash(NoItem))

\* how a classify call ended: it returned a result or raised, whether the
\* oracle was called for it and how that went, and which item it was for
Outcome(how, res, oracle, item) ==
    [how |-> how, result |-> res, oracle |-> oracle, item |-> item]

\* self._cache[content_hash] = (result, datetime.utcnow()), when caching is on
cache_store(h, res) ==
    IF enable_cache
    THEN /\ cache' = [k \in (DOMAIN cache) \cup {h} |->
                        IF k = h THEN [result |-> res, cached_time |-> utcnow]
                        ELSE cache[k]]
         /\ cache_writes' = [cache_writes EXCEPT ![h] = @ + 1]
    ELSE UNCHANGED <<cache, cache_writes>>

\* as cache_hit, but an entry whose age equals the TTL still counts
cache_hit_at_ttl(h) ==
    /\ enable_cache
    /\ h \in DOMAIN cache
    /\ utcnow - cache[h].cached_time <= CACHE_TTL_SECONDS

\* the cache check of classify
cache_hit(h) ==
    /\ enable_cache
    /\ h \in DOMAIN cache
    /\ utcnow - cache[h].cached_time < CACHE_TTL_SECONDS

ClassifierInit(callers, calls) ==
    /\ enable_cache \in BOOLEAN
    /\ enable_fallback \in BOOLEAN
    /\ cache = <<>>
    /\ utcnow = 0
    /\ cls_workers = callers
    /\ cls_pc = [w \in callers |-> "idle"]
    /\ cls_item = [w \in callers |-> NoItem]
    /\ cls_out = [w \in callers |-> Outcome("none", NoResult, "not_called", NoItem)]
    /\ oracle_calls = [h \in {context_hash(item) : item \in Items} |-> 0]
    /\ cache_writes = oracle_calls
    /\ cls_calls_left = calls

\* classify: the entry is in the cache and younger than the TTL
ClassifyCacheHit(w) ==
    /\ cls_pc[w] = "idle"
    /\ cls_calls_left > 0
    /\ \E item \in Items :
          /\ cache_hit(context_hash(item))
          /\ cls_out' = [cls_out EXCEPT ![w] =
                Outcome("returned", cache[context_hash(item)].result, "not_called", item)]
    /\ cls_calls_left' = cls_calls_left - 1
    /\ UNCHANGED <<enable_cache, enable_fallback, cache, utcnow, cls_workers, cls_pc,
                   cls_item, oracle_calls, cache_writes>>
    /\ UNCHANGED notCls

\* classify(item, use_llm=True): no usable cache entry, the oracle is called
ClassifyCallsOracle(w) ==
    /\ cls_pc[w] = "idle"
    /\ cls_calls_left > 0
    /\ \E item \in Items :
          /\ ~cache_hit(context_hash(item))
          /\ cls_item' = [cls_item EXCEPT ![w] = item]
          /\ oracle_calls' = [oracle_calls EXCEPT ![context_hash(item)] = @ + 1]
    /\ cls_pc' = [cls_pc EXCEPT ![w] = "llm"]
    /\ cls_out' = [cls_out EXCEPT ![w] = Outcome("none", NoResult, "not_called", NoItem)]
    /\ cls_calls_left' = cls_calls_left - 1
    /\ UNCHANGED <<enable_cache, enable_fallback, cache, utcnow, cls_workers,
                   cache_writes>>
    /\ UNCHANGED notCls

\* classify(item, use_llm=False): no usable cache entry, heuristics only
ClassifyHeuristicsOnly(w) ==
    /\ cls_pc[w] = "idle"
    /\ cls_calls_left > 0
    /\ \E item \in Items, sig \in Signals :
          /\ ~cache_hit(context_hash(item))
          /\ cache_store(context_hash(item), heuristic_result(item, sig))
          /\ cls_out' = [cls_out EXCEPT ![w] =
                Outcome("returned", heuristic_result(item, sig), "not_called", item)]
    /\ cls_calls_left' = cls_calls_left - 1
    /\ UNCHANGED <<enable_cache, enable_fallback, utcnow, cls_workers, cls_pc,
                   cls_item, oracle_calls>>
    /\ UNCHANGED notCls

\* _classify_with_llm returns: the response parsed and held every field
LlmAnswers(w) ==
    /\ cls_pc[w] = "llm"
    /\ \E llm_response \in LlmResponses :
          LET res == create_from_llm_response(cls_item[w], llm_response)
          IN  /\ cache_store(context_hash(cls_item[w]), res)
              /\ cls_out' = [cls_out EXCEPT ![w] =
                    Outcome("returned", res, "ok", cls_item[w])]
    /\ cls_pc' = [cls_pc EXCEPT ![w] = "idle"]
    /\ cls_item' = [cls_item EXCEPT ![w] = NoItem]
    /\ UNCHANGED <<enable_cache, enable_fallback, utcnow, cls_workers, oracle_calls,
                   cls_calls_left>>
    /\ UNCHANGED notCls

\* _classify_with_llm raises (the call failed, or the response was not JSON
\* or lacked a field) and fallback is off: the exception leaves classify
LlmFailsNoFallback(w) ==
    /\ cls_pc[w] = "llm"
    /\ ~enable_fallback
    /\ cls_out' = [cls_out EXCEPT ![w] = Outcome("raised", NoResult, "failed", cls_item[w])]
    /\ cls_pc' = [cls_pc EXCEPT ![w] = "idle"]
    /\ cls_item' = [cls_item EXCEPT ![w] = NoItem]
    /\ UNCHANGED <<enable_cache, enable_fallback, cache, utcnow, cls_workers,
                   oracle_calls, cache_writes, cls_calls_left>>
    /\ UNCHANGED notCls

\* as LlmFailsFallback, but the exception leaves classify all the same
LlmFailsReraises(w) ==
    /\ cls_pc[w] = "llm"
    /\ enable_fallback
    /\ cls_out' = [cls_out EXCEPT ![w] = Outcome("raised", NoResult, "failed", cls_item[w])]
    /\ cls_pc' = [cls_pc EXCEPT ![w] = "idle"]
    /\ cls_item' = [cls_item EXCEPT ![w] = NoItem]
    /\ UNCHANGED <<enable_cache, enable_fallback, cache, utcnow, cls_workers,
                   oracle_calls, cache_writes, cls_calls_left>>
    /\ UNCHANGED notCls

\* _classify_with_llm raises and fallback is on: the heuristics classify
LlmFailsFallback(w) ==
    /\ cls_pc[w] = "llm"
    /\ enable_fallback
    /\ \E sig \in Signals :
          LET res == heuristic_result(cls_item[w], sig)
          IN  /\ cache_store(context_hash(cls_item[w]), res)
              /\ cls_out' = [cls_out EXCEPT ![w] =
                    Outcome("returned", res, "failed", cls_item[w])]
    /\ cls_pc' = [cls_pc EXCEPT ![w] = "idle"]
    /\ cls_item' = [cls_item EXCEPT ![w] = NoItem]
    /\ UNCHANGED <<enable_cache, enable_fallback, utcnow, cls_workers, oracle_calls,
                   cls_calls_left>>
    /\ UNCHANGED notCls

\* time passes between two steps, up to one of a few instants around the TTL
TimePasses ==
    /\ cls_workers # {}
    /\ \E t \in {1, CACHE_TTL_SECONDS - 1, CACHE_TTL_SECONDS, CACHE_TTL_SECONDS + 1} :
          /\ t > utcnow
          /\ utcnow' = t
    /\ UNCHANGED <<enable_cache, enable_fallback, cache, cls_workers, cls_pc, cls_item,
                   cls_out, oracle_calls, cache_writes, cls_calls_left>>
    /\ UNCHANGED notCls

NextClassifier ==
    \/ \E w \in cls_workers : ClassifyCacheHit(w)
    \/ \E w \in cls_workers : ClassifyCallsOracle(w)
    \/ \E w \in cls_workers : ClassifyHeuristicsOnly(w)
    \/ \E w \in cls_workers : LlmAnswers(w)
    \/ \E w \in cls_workers : LlmFailsNoFallback(w)
    \/ \E w \in cls_workers : LlmFailsFallback(w)
    \/ TimePasses

\* one caller classifies items one after the other
InitClassifier ==
    /\ ClassifierInit({1}, MaxClassifyCalls)
    /\ DagIdle /\ ctx_errors = <<>> /\ LimIdle /\ StgIdle /\ ResIdle /\ RunIdle /\ StoIdle /\ UfIdle

SpecClassifier == InitClassifier /\ [][NextClassifier]_vars

\* the fan-out workers of _run_p2 call classify on the one classifier
InitClassifierMT ==
    /\ ClassifierInit(1..NumWorkers, MaxClassifyCallsMT)
    /\ DagIdle /\ ctx_errors = <<>> /\ LimIdle /\ StgIdle /\ ResIdle
    /\ RunIdle /\ StoIdle /\ UfIdle

SpecClassifierMT == InitClassifierMT /\ [][NextClassifier]_vars

(***************************************************************************)
(* Claims about the classifier.                                            *)
(***************************************************************************)
\* C4: when the oracle call, or the parsing and validation of its response,
\* fails for an item and fallback is enabled, classify returns a heuristic
\* result tagged "heuristic-v1" with a score between 0 and 1 (0 and 10
\* tenths) and raises nothing; classify raises the oracle's error only when
\* fallback is disabled.
C4_FallbackOnOracleFailure ==
    \A w \in cls_workers :
        LET out == cls_out[w]
        IN  /\ (out.oracle = "failed" /\ enable_fallback) =>
                   /\ out.how = "returned"
                   /\ out.result.model = "heuristic-v1"
                   /\ out.result.score >= 0
                   /\ out.result.score <= 10
                   /\ out.result.item_id = out.item.id
            /\ (out.how = "raised") => (out.oracle = "failed" /\ ~enable_fallback)

\* the oracle failed with fallback on, and the heuristics found enough to
\* reach the top of the scale
C4_Witness ==
    \E w \in cls_workers :
        /\ enable_fallback
        /\ cls_out[w].oracle = "failed"
        /\ cls_out[w].how = "returned"
        /\ cls_out[w].result.model = "heuristic-v1"
        /\ cls_out[w].result.score = 10

\* this step enters classify for worker w
classify_called(w) == cls_calls_left' = cls_calls_left - 1

\* this step ends a classify call of worker w with a result
classify_returned(w) ==
    /\ classify_called(w) \/ cls_pc[w] = "llm"
    /\ cls_pc'[w] = "idle"
    /\ cls_out'[w].how = "returned"

\* the item of the classify call that this step enters or ends
item_of_step(w) == IF cls_pc'[w] = "llm" THEN cls_item'[w] ELSE cls_out'[w].item

\* the cache holds an entry for h whose age has reached the TTL
stale(h) == h \in DOMAIN cache /\ utcnow - cache[h].cached_time >= CACHE_TTL_SECONDS

\* C14: with the cache on, a classify call returns the cached result only
\* if now - inserted_at < TTL at the lookup; an entry whose age has reached
\* the TTL is never served: the item is classified again (by the oracle or
\* the heuristics), and the fresh result replaces the entry, stamped now.
C14_CacheTtl ==
    [][\A w \in cls_workers :
          LET h == context_hash(item_of_step(w))
          IN  /\ (enable_cache /\ classify_returned(w)) =>
                    IF cache_writes'[h] = cache_writes[h]
                    THEN /\ h \in DOMAIN cache
                         /\ utcnow - cache[h].cached_time < CACHE_TTL_SECONDS
                         /\ cls_out'[w].result = cache[h].result
                         /\ oracle_calls' = oracle_calls
                         /\ cache' = cache
                    ELSE cache'[h] = [result |-> cls_out'[w].result, cached_time |-> utcnow]
              /\ (enable_cache /\ classify_called(w) /\ stale(h)) =>
                    \/ oracle_calls'[h] = oracle_calls[h] + 1
                    \/ /\ cache_writes'[h] = cache_writes[h] + 1
                       /\ cache'[h].cached_time = utcnow]_vars

\* an entry stored at time 0 was looked up when its age was exactly the TTL,
\* the oracle was asked again and its answer replaced the entry
C14_Witness ==
    \E w \in cls_workers :
        LET h == context_hash(cls_out[w].item)
        IN  /\ enable_cache
            /\ cls_out[w].how = "returned"
            /\ cls_out[w].oracle = "ok"
            /\ cache_writes[h] = 2
            /\ oracle_calls[h] >= 1
            /\ utcnow = CACHE_TTL_SECONDS
            /\ cache[h] = [result |-> cls_out[w].result, cached_time |-> CACHE_TTL_SECONDS]

\* items a and b yield the same context: same type, same title and abstract
same_context(a, b) == a.source_type = b.source_type /\ a.content = b.content

\* C15: when an item is classified right after an item with identical
\* context has been (cache on, the entry younger than the TTL), the second
\* call is served from the cache: it returns at once without invoking the
\* oracle, the cache does not grow, and its result carries the hash of the
\* first result.
C15_SecondCallFromCache ==
    [][\A w \in cls_workers :
          LET first == cls_out[w]
              second == item_of_step(w)
          IN  (/\ enable_cache
               /\ classify_called(w)
               /\ first.how = "returned"
               /\ same_context(first.item, second)
               /\ utcnow - cache[context_hash(first.item)].cached_time < CACHE_TTL_SECONDS) =>
                  /\ classify_returned(w)
                  /\ cls_out'[w].item = second
                  /\ cls_out'[w].oracle = "not_called"
                  /\ oracle_calls' = oracle_calls
                  /\ DOMAIN cache' = DOMAIN cache
                  /\ cls_out'[w].result.hash = first.result.hash]_vars

\* two items with different ids and the same context were classified one
\* after the other: the oracle answered the first call, the second returned
\* the result cached for the first, and the oracle was invoked once in all
C15_Witness ==
    \E w \in cls_workers :
        LET h == context_hash(cls_out[w].item)
        IN  /\ enable_cache
            /\ cls_calls_left = MaxClassifyCalls - 2
            /\ cls_out[w].how = "returned"
            /\ cls_out[w].oracle = "not_called"
            /\ cls_out[w].result.model = "gemini-2.5-flash"
            /\ cls_out[w].result.item_id # cls_out[w].item.id
            /\ oracle_calls[h] = 1
            /\ cache_writes[h] = 1
            /\ Cardinality(DOMAIN cache) = 1

\* C27: every result classify returns for an item carries that item's own
\* id as item_id, also when it is served from the cache, so that selecting
\* items by the item_ids of the relevant results picks the items judged.
C27_ResultCarriesItemId ==
    \A w \in cls_workers :
        cls_out[w].how = "returned" => cls_out[w].result.item_id = cls_out[w].item.id

\* C30: check-and-fill of the cache is serialized per fingerprint: with the
\* cache on and every entry younger than the TTL, under every interleaving
\* of the workers the oracle is invoked at most once for a fingerprint and
\* its entry is written once.  (With the fallback on, every call that
\* reaches the oracle ends by filling the cache.)
C30_OneFillPerFingerprint ==
    (enable_cache /\ enable_fallback /\ utcnow < CACHE_TTL_SECONDS) =>
        \A h \in DOMAIN oracle_calls :
            /\ oracle_calls[h] <= 1
            /\ cache_writes[h] <= 1

(***************************************************************************)
(* orchestrator/runner.py: the pipeline DAG and its five stage functions.  *)
(* The agents and the storage are what the stage functions call: a call    *)
(* returns or raises.  Nodes are numbered in the order of their names.     *)
(***************************************************************************)
MaxPatents == 2
MaxNews == 1

TIME_BUDGET_MINUTES == 15

PipelineNames ==
    <<"p1a_patents", "p1b_news", "p2_relevance", "p3_extraction", "p4_resolution">>

node(name) == CHOOSE k \in DOMAIN PipelineNames : PipelineNames[k] = name

\* PipelineOrchestrator._build_dag
PipelineDependencies ==
    << <<>>, <<>>, <<node("p1a_patents"), node("p1b_news")>>,
       <<node("p2_relevance")>>, <<node("p3_extraction")>> >>

IngestNodes == {node("p1a_patents"), node("p1b_news")}
FanOutNodes == {node("p2_relevance"), node("p3_extraction")}

\* the documents the two sources can yield
Documents(k) ==
    IF k = node("p1a_patents") THEN 1..MaxPatents
    ELSE (MaxPatents + 1)..(MaxPatents + MaxNews)

\* the nodes whose .result a stage function reads before anything else
reads(k) ==
    IF k = node("p2_relevance") THEN IngestNodes
    ELSE IF k = node("p3_extraction") THEN IngestNodes \cup {node("p2_relevance")}
    ELSE IF k = node("p4_resolution") THEN {node("p3_extraction")}
    ELSE {}

\* the stage functions that test the 'success' flag of the storage's answer
checks_persist(k) == k \notin FanOutNodes

\* the items a fan-out stage submits: P2 all documents, P3 the documents
\* whose id is the item_id of a relevant P2 result
fan_out_items(k) ==
    LET docs == fetched[node("p1a_patents")] \cup fetched[node("p1b_news")]
        p2 == results[node("p2_relevance")]
    IN  IF k = node("p2_relevance") THEN docs
        ELSE {i \in docs : \E j \in 1..Len(p2) : p2[j].item_id = i /\ p2[j].is_relevant}

\* PipelineOrchestrator.__init__ and run: the DAG is built, nothing has run
PipelineInit ==
    /\ node_names = [k \in DOMAIN PipelineNames |-> k]
    /\ dependencies = PipelineDependencies
    /\ fail_fast = FALSE
    /\ status = [k \in DOMAIN PipelineNames |-> "pending"]
    /\ result = [k \in DOMAIN PipelineNames |-> FALSE]
    /\ error = [k \in DOMAIN PipelineNames |-> FALSE]
    /\ fn_calls = [k \in DOMAIN PipelineNames |-> 0]
    /\ execution_order = <<>>
    /\ pos = 0
    /\ completed = {}
    /\ failed = {}
    /\ dag_pc = "start"
    /\ ctx_errors = <<>>
    /\ is_dry_run \in BOOLEAN
    /\ stage_pc = [k \in DOMAIN PipelineNames |-> "idle"]
    /\ fetched = [k \in DOMAIN PipelineNames |-> {}]
    /\ all_items = [k \in DOMAIN PipelineNames |-> {}]
    /\ pending = {}
    /\ results = [k \in DOMAIN PipelineNames |-> <<>>]
    /\ item_failed = [k \in DOMAIN PipelineNames |-> {}]
    /\ persist_calls = [k \in DOMAIN PipelineNames |-> "none"]
    /\ written = {}

\* the stage function of node k is the one DAGNode.execute is running
in_stage(k, at) ==
    /\ dag_pc = "running"
    /\ current_node = k
    /\ stage_pc[k] = at

\* as stage_works, but the stage function does not test ctx.is_dry_run
stage_works_in_any_mode(k) ==
    /\ in_stage(k, "idle")
    /\ \A r \in reads(k) : result[r]

\* the stage function got past reading its inputs and the dry-run test
stage_works(k) ==
    /\ in_stage(k, "idle")
    /\ \A r \in reads(k) : result[r]
    /\ ~is_dry_run

\* a stage function reads .result of a node that never ran: None has no
\* get, the AttributeError leaves the function before its try block
StageInputsMissing(k) ==
    /\ in_stage(k, "idle")
    /\ \E r \in reads(k) : ~result[r]
    /\ stage_pc' = [stage_pc EXCEPT ![k] = "raised"]
    /\ UNCHANGED <<is_dry_run, fetched, all_items, pending, results, item_failed,
                   persist_calls, written, ctx_errors>>
    /\ UNCHANGED <<dagVars, notStg>>

\* ctx.is_dry_run: the stage function returns its empty result at once
StageDryRun(k) ==
    /\ in_stage(k, "idle")
    /\ \A r \in reads(k) : result[r]
    /\ is_dry_run
    /\ stage_pc' = [stage_pc EXCEPT ![k] = "returned"]
    /\ UNCHANGED <<is_dry_run, fetched, all_items, pending, results, item_failed,
                   persist_calls, written, ctx_errors>>
    /\ UNCHANGED <<dagVars, notStg>>

\* the except block of a stage function: ctx.add_error(node, str(e)); raise
StageRaises(k) ==
    /\ stage_pc' = [stage_pc EXCEPT ![k] = "raised"]
    /\ ctx_errors' = add_error(ctx_errors, k, "N/A")

\* the agent's call raises inside the try block: the ingestion or the
\* resolution itself, or the lookup of the agent's method at the first submit
AgentRaises(k) ==
    /\ stage_works(k)
    /\ k \in FanOutNodes => fan_out_items(k) # {}
    /\ StageRaises(k)
    /\ UNCHANGED <<is_dry_run, fetched, all_items, pending, results, item_failed,
                   persist_calls, written>>
    /\ UNCHANGED <<dagVars, notStg>>

\* _run_p1a, _run_p1b: the agent returns the documents it fetched
IngestReturns(k) ==
    /\ k \in IngestNodes
    /\ stage_works(k)
    /\ \E docs \in SUBSET Documents(k) : fetched' = [fetched EXCEPT ![k] = docs]
    /\ stage_pc' = [stage_pc EXCEPT ![k] = "persist"]
    /\ UNCHANGED <<is_dry_run, all_items, pending, results, item_failed,
                   persist_calls, written, ctx_errors>>
    /\ UNCHANGED <<dagVars, notStg>>

\* _run_p2, _run_p3: every item is submitted to the pool
FanOutSubmit(k) ==
    /\ k \in FanOutNodes
    /\ stage_works(k)
    /\ all_items' = [all_items EXCEPT ![k] = fan_out_items(k)]
    /\ pending' = fan_out_items(k)
    /\ stage_pc' = [stage_pc EXCEPT ![k] =
                       IF fan_out_items(k) = {} THEN "persist" ELSE "fanout"]
    /\ UNCHANGED <<is_dry_run, fetched, results, item_failed, persist_calls,
                   written, ctx_errors>>
    /\ UNCHANGED <<dagVars, notStg>>

\* the as_completed loop leaves pool and loop once no future is left
after_future(k, left) ==
    /\ pending' = left
    /\ stage_pc' = [stage_pc EXCEPT ![k] = IF left = {} THEN "persist" ELSE "fanout"]

\* as_completed yields a future whose call returned: results.append(result)
ItemReturns(k, i) ==
    /\ in_stage(k, "fanout")
    /\ i \in pending
    /\ \E rel \in BOOLEAN :
          results' = [results EXCEPT ![k] =
                         Append(@, [item_id |-> i, is_relevant |-> rel])]
    /\ after_future(k, pending \ {i})
    /\ UNCHANGED <<is_dry_run, fetched, all_items, item_failed, persist_calls,
                   written, ctx_errors>>
    /\ UNCHANGED <<dagVars, notStg>>

\* as ItemRaises, but nothing is logged into the run context
ItemRaisesUnlogged(k, i) ==
    /\ in_stage(k, "fanout")
    /\ i \in pending
    /\ item_failed' = [item_failed EXCEPT ![k] = @ \cup {i}]
    /\ after_future(k, pending \ {i})
    /\ UNCHANGED <<is_dry_run, fetched, all_items, results, persist_calls, written,
                   ctx_errors>>
    /\ UNCHANGED <<dagVars, notStg>>

\* as_completed yields a future whose call raised: ctx.add_error, no result
ItemRaises(k, i) ==
    /\ in_stage(k, "fanout")
    /\ i \in pending
    /\ ctx_errors' = add_error(ctx_errors, k, "N/A")
    /\ item_failed' = [item_failed EXCEPT ![k] = @ \cup {i}]
    /\ after_future(k, pending \ {i})
    /\ UNCHANGED <<is_dry_run, fetched, all_items, results, persist_calls, written>>
    /\ UNCHANGED <<dagVars, notStg>>

\* _run_p4: resolve_batch returns the entities of the extracted companies
ResolveReturns(k) ==
    /\ k = node("p4_resolution")
    /\ stage_works(k)
    /\ results' = [results EXCEPT ![k] = results[node("p3_extraction")]]
    /\ stage_pc' = [stage_pc EXCEPT ![k] = "persist"]
    /\ UNCHANGED <<is_dry_run, fetched, all_items, pending, item_failed,
                   persist_calls, written, ctx_errors>>
    /\ UNCHANGED <<dagVars, notStg>>

\* the stage function hands the storage an empty list
no_rows(k) == IF k \in IngestNodes THEN fetched[k] = {} ELSE results[k] = <<>>

\* self.storage.persist_*: the repository answers success without a write
\* for no rows, and success after the upsert went through
PersistSucceeds(k) ==
    /\ in_stage(k, "persist")
    /\ persist_calls' = [persist_calls EXCEPT ![k] = IF no_rows(k) THEN "empty" ELSE "ok"]
    /\ written' = IF no_rows(k) THEN written ELSE written \cup {k}
    /\ stage_pc' = [stage_pc EXCEPT ![k] = "returned"]
    /\ UNCHANGED <<is_dry_run, fetched, all_items, pending, results, item_failed,
                   ctx_errors>>
    /\ UNCHANGED <<dagVars, notStg>>

\* the upsert failed after its retries: the repository answers
\* {'success': False}, which _run_p1a, _run_p1b and _run_p4 turn into an
\* exception and _run_p2 and _run_p3 do not look at
PersistFails(k) ==
    /\ in_stage(k, "persist")
    /\ ~no_rows(k)
    /\ persist_calls' = [persist_calls EXCEPT ![k] = "failed"]
    /\ IF checks_persist(k)
       THEN StageRaises(k)
       ELSE /\ stage_pc' = [stage_pc EXCEPT ![k] = "returned"]
            /\ UNCHANGED ctx_errors
    /\ UNCHANGED <<is_dry_run, fetched, all_items, pending, results, item_failed,
                   written>>
    /\ UNCHANGED <<dagVars, notStg>>

\* DAGNode.execute when the stage function returned
StageNodeSucceeds ==
    /\ dag_pc = "running"
    /\ stage_pc[current_node] = "returned"
    /\ NodeSucceeds

\* DAGNode.execute when the stage function raised
StageNodeFails ==
    /\ dag_pc = "running"
    /\ stage_pc[current_node] = "raised"
    /\ NodeFails

\* RunContext.get_duration_seconds: utcnow() - started_at, the context having
\* been created at time 0
get_duration_seconds == utcnow - 0

\* the run takes time: the clock reaches the time budget, or goes past it,
\* while DAG.execute is in its loop or inside a stage function
RunTakesTime ==
    /\ dag_pc \in {"loop", "running"}
    /\ \E t \in {TIME_BUDGET_MINUTES * 60, TIME_BUDGET_MINUTES * 60 + 1} :
          /\ t > utcnow
          /\ utcnow' = t
    /\ UNCHANGED <<enable_cache, enable_fallback, cache, cls_workers, cls_pc, cls_item,
                   cls_out, oracle_calls, cache_writes, cls_calls_left>>
    /\ UNCHANGED <<dagVars, ctx_errors, limVars, stgVars, resVars, runVars, auxVars>>

\* as MainExits, but the exit code is 1 only when some node ended failed
MainExitsByStatus ==
    /\ dag_pc \in {"done", "raised"}
    /\ exit_code = 0 - 1
    /\ exit_code' = IF \E k \in DOMAIN status : status[k] = "failed" THEN 1 ELSE 0
    /\ UNCHANGED <<dagVars, ctx_errors, limVars, clsVars, stgVars, resVars,
                   client_timestamps, caller, dlq_files, dlq_calls, auxVars>>

\* main once dag.execute is over.  It returned: run returns ctx and main
\* exits 0 if ctx.errors is empty, else 1.  It raised: run logs the error
\* for 'orchestrator' (node 0) and re-raises, main exits 1.
MainExits ==
    /\ dag_pc \in {"done", "raised"}
    /\ exit_code = 0 - 1
    /\ IF dag_pc = "done"
       THEN /\ exit_code' = IF Len(ctx_errors) = 0 THEN 0 ELSE 1
            /\ UNCHANGED ctx_errors
       ELSE /\ exit_code' = 1
            /\ ctx_errors' = add_error(ctx_errors, 0, "N/A")
    /\ UNCHANGED <<dagVars, limVars, clsVars, stgVars, resVars,
                   client_timestamps, caller, dlq_files, dlq_calls, auxVars>>

\* main when PipelineOrchestrator() or get_date_range raises: there is no
\* run context yet, dag.execute is never called, the process exits 1
MainFailsEarly ==
    /\ dag_pc = "start"
    /\ exit_code = 0 - 1
    /\ exit_code' = 1
    /\ dag_pc' = "none"
    /\ UNCHANGED <<node_names, dependencies, status, result, error, fn_calls,
                   execution_order, pos, completed, failed, fail_fast>>
    /\ UNCHANGED <<ctx_errors, limVars, clsVars, stgVars, resVars,
                   client_timestamps, caller, dlq_files, dlq_calls, auxVars>>

NextPipeline ==
    \/ ExecuteStart
    \/ RunTakesTime
    \/ MainExits
    \/ MainFailsEarly
    \/ SkipNode
    \/ StartNode
    \/ StageNodeSucceeds
    \/ StageNodeFails
    \/ ExecuteReturns
    \/ \E k \in DOMAIN PipelineNames : StageInputsMissing(k)
    \/ \E k \in DOMAIN PipelineNames : StageDryRun(k)
    \/ \E k \in DOMAIN PipelineNames : AgentRaises(k)
    \/ \E k \in DOMAIN PipelineNames : IngestReturns(k)
    \/ \E k \in DOMAIN PipelineNames : FanOutSubmit(k)
    \/ \E k \in DOMAIN PipelineNames, i \in pending : ItemReturns(k, i)
    \/ \E k \in DOMAIN PipelineNames, i \in pending : ItemRaises(k, i)
    \/ \E k \in DOMAIN PipelineNames : ResolveReturns(k)
    \/ \E k \in DOMAIN PipelineNames : PersistSucceeds(k)
    \/ \E k \in DOMAIN PipelineNames : PersistFails(k)

InitPipeline == PipelineInit /\ LimIdle /\ ClsIdle /\ ResIdle /\ RunIdle /\ StoIdle /\ UfIdle

SpecPipeline == InitPipeline /\ [][NextPipeline]_vars

(***************************************************************************)
(* Claims about the fan-out stages and the pipeline.                       *)
(***************************************************************************)
\* how often item i has a result in the output of stage k
times_in_results(k, i) ==
    Cardinality({j \in 1..Len(results[k]) : results[k][j].item_id = i})

\* the entries of the run context's error list logged for node k
errors_of(k) ==
    Cardinality({j \in 1..Len(ctx_errors) : ctx_errors[j].node = k})

\* C5: in a fan-out stage over n items, whichever per-item calls raise and
\* in whatever order the calls complete, each item whose call returned has
\* exactly one result in the stage output, each item whose call raised has
\* none and added exactly one entry to the run context's error list, the
\* stage goes on to its end, and results plus per-item errors make n.
C5_FanOutAccounting ==
    \A k \in FanOutNodes :
        LET left == IF stage_pc[k] = "fanout" THEN pending ELSE {}
            done == all_items[k] \ left
        IN  /\ stage_pc[k] \in {"fanout", "persist", "returned"} =>
                  /\ \A i \in done \ item_failed[k] : times_in_results(k, i) = 1
                  /\ \A i \in item_failed[k] : i \in done /\ times_in_results(k, i) = 0
                  /\ errors_of(k) = Cardinality(item_failed[k])
                  /\ Len(results[k]) + errors_of(k) = Cardinality(done)
            /\ stage_pc[k] = "raised" => (all_items[k] = {} /\ item_failed[k] = {})

\* a fan-out over three items ended with some calls raised and some returned
C5_Witness ==
    \E k \in FanOutNodes :
        /\ stage_pc[k] = "returned"
        /\ Cardinality(all_items[k]) = MaxPatents + MaxNews
        /\ item_failed[k] # {}
        /\ results[k] # <<>>
        /\ Len(results[k]) + errors_of(k) = Cardinality(all_items[k])

\* C6: for every stage that persists its output, when the storage still
\* reports failure after its retries the stage's node ends failed and the
\* nodes that depend on it are skipped.
C6_PersistFailureFailsStage ==
    dag_pc = "done" =>
        \A k \in DOMAIN PipelineNames :
            persist_calls[k] = "failed" =>
                /\ status[k] = "failed"
                /\ \A d \in DOMAIN PipelineNames :
                      (\E j \in 1..Len(dependencies[d]) : dependencies[d][j] = k) =>
                          status[d] = "skipped"

\* C16: once the run's elapsed time exceeds the time budget, the stage that
\* is running is aborted (it fetches, classifies and persists nothing more)
\* and no later stage is executed, while what the earlier stages persisted
\* stays persisted.
C16_BudgetAbortsRun ==
    [][(get_duration_seconds > TIME_BUDGET_MINUTES * 60) =>
          /\ fn_calls' = fn_calls
          /\ fetched' = fetched
          /\ results' = results
          /\ persist_calls' = persist_calls
          /\ written \subseteq written']_vars

\* C17: when a run has ended, the process exit code is 0 if and only if the
\* run context's error log is empty; a run in which some node ended failed
\* has a non-empty error log and exits with code 1.
C17_ExitCode ==
    (exit_code # 0 - 1 /\ dag_pc # "none") =>
        /\ exit_code = 0 <=> ctx_errors = <<>>
        /\ exit_code \in {0, 1}
        /\ (\E k \in DOMAIN status : status[k] = "failed") =>
              (ctx_errors # <<>> /\ exit_code = 1)

\* a run exited with code 1 although every node ended success: the only
\* errors logged are those of single items in a fan-out
C17_Witness ==
    /\ exit_code = 1
    /\ dag_pc = "done"
    /\ \A k \in DOMAIN status : status[k] = "success"
    /\ ctx_errors # <<>>

\* C20: in dry-run mode no stage performs an external side effect: no
\* stage fetches documents, submits an item to a classifier (so no oracle
\* call) or calls the storage, nothing is written, no node fails or is
\* skipped, and when execute returns every node is success with an empty
\* result.
C20_DryRunNoSideEffects ==
    is_dry_run =>
        /\ \A k \in DOMAIN PipelineNames :
              /\ fetched[k] = {}
              /\ all_items[k] = {}
              /\ item_failed[k] = {}
              /\ results[k] = <<>>
              /\ persist_calls[k] = "none"
              /\ status[k] \in {"pending", "running", "success"}
        /\ pending = {}
        /\ written = {}
        /\ dag_pc = "done" =>
              \A k \in DOMAIN PipelineNames : status[k] = "success" /\ result[k]

\* a dry run went through all five stages and the process exited with 0
C20_Witness ==
    /\ is_dry_run
    /\ dag_pc = "done"
    /\ \A k \in DOMAIN PipelineNames :
          status[k] = "success" /\ fn_calls[k] = 1 /\ stage_pc[k] = "returned"
    /\ exit_code = 0

(***************************************************************************)
(* The oracle clients of the two classifiers.  PipelineOrchestrator builds *)
(* RelevanceFilterAgent() and ExtractionClassifierAgent(); each builds its *)
(* classifier without passing a client, and the classifier's __init__      *)
(* takes `gemini_client or GeminiClient(...)`.  The stages run one after   *)
(* the other; a call is taken as a whole and succeeds at its first attempt.*)
(***************************************************************************)
Classifiers == {"p2_relevance", "p3_extraction"}

\* RelevanceClassifier.__init__ and ExtractionClassifier.__init__: each
\* classifier holds a GeminiClient of its own, its request_timestamps empty
InitClients ==
    /\ client_timestamps = [c \in Classifiers |-> <<>>]
    /\ caller = "p2_relevance"
    /\ clock = 0
    /\ dispatched = <<>>
    /\ calls_left = MaxCalls
    /\ request_timestamps = <<>>
    /\ workers = {}
    /\ lim_pc = <<>>
    /\ attempt = <<>>
    /\ local_now = <<>>
    /\ filtered = <<>>
    /\ wake = <<>>
    /\ call_result = <<>>
    /\ failures_left = 0
    /\ exit_code = 0 - 1
    /\ dlq_files = <<>>
    /\ dlq_calls = <<>>
    /\ DagIdle /\ ctx_errors = <<>> /\ ClsIdle /\ StgIdle /\ ResIdle
    /\ StoIdle /\ UfIdle

\* self.gemini_client.generate_content of the running stage's classifier:
\* _enforce_rate_limit purges that client's list and sleeps while it is
\* full, then the timestamp is appended and the API is called
GenerateContent ==
    /\ caller \in Classifiers
    /\ calls_left > 0
    /\ \E ts \in {purge(client_timestamps[caller], clock)} :
          \E sleep_time \in {IF Len(ts) >= max_rpm
                              THEN WindowSeconds - (clock - ts[1]) ELSE 0} :
             \E t \in {IF sleep_time > 0 THEN clock + sleep_time ELSE clock} :
                /\ t <= MaxTime
                /\ clock' = t
                /\ client_timestamps' = [client_timestamps EXCEPT ![caller] = Append(ts, t)]
                /\ dispatched' = Append(dispatched, t)
    /\ calls_left' = calls_left - 1
    /\ UNCHANGED <<request_timestamps, workers, lim_pc, attempt, local_now, filtered,
                   wake, call_result, failures_left>>
    /\ UNCHANGED <<caller, exit_code, dlq_files, dlq_calls, auxVars>>
    /\ UNCHANGED <<dagVars, ctx_errors, clsVars, stgVars, resVars>>

\* the P2 fan-out is over: DAG.execute goes on to p3_extraction
StageEnds ==
    /\ caller = "p2_relevance"
    /\ caller' = "p3_extraction"
    /\ UNCHANGED <<limVars, client_timestamps, exit_code, dlq_files, dlq_calls, auxVars>>
    /\ UNCHANGED <<dagVars, ctx_errors, clsVars, stgVars, resVars>>

\* no classifier calls the oracle for a whole window
ClientsPause ==
    /\ caller \in Classifiers
    /\ clock + WindowSeconds <= MaxTime
    /\ clock' = clock + WindowSeconds
    /\ UNCHANGED <<request_timestamps, workers, lim_pc, attempt, local_now, filtered,
                   wake, call_result, dispatched, calls_left, failures_left>>
    /\ UNCHANGED <<runVars, dagVars, ctx_errors, clsVars, stgVars, resVars, auxVars>>

NextClients ==
    \/ GenerateContent
    \/ StageEnds
    \/ ClientsPause

SpecClients == InitClients /\ [][NextClients]_vars

\* C18: all oracle calls of the process, those of the relevance classifier
\* and those of the extraction classifier alike, are counted against one
\* shared window: no 60-second window holds more than max_rpm calls of the
\* two stages together.
C18_OneSharedWindow ==
    \A i \in 1..Len(dispatched) :
        Cardinality({j \in 1..Len(dispatched) :
                        /\ dispatched[j] <= dispatched[i]
                        /\ dispatched[i] - dispatched[j] < WindowSeconds}) <= max_rpm

(***************************************************************************)
(* orchestrator/errors.py: the dead letter queue.  Paths are strings       *)
(* relative to dlq_dir; the run starts at 2026-01-01 00:00:00 and lasts    *)
(* less than ten seconds.  NoItemId stands for item_id=None.               *)
(***************************************************************************)
MaxDlqCalls == 3
MaxDlqSeconds == 2
MaxPayloads == 2

NoItemId == "None"

\* write_to_dlq: the file name is the second of the call plus the item id,
\* if there is one; open(filepath, 'w') creates the file or truncates it
WriteToDlq(node_name, item_id, payload) ==
    /\ Len(dlq_calls) < MaxDlqCalls
    /\ LET strftime(now) == "20260101_00000" \o SubSeq("0123456789", now + 1, now + 1)
           item_suffix == IF item_id # NoItemId THEN "_" \o item_id ELSE ""
           written_as(filepath, dlq_entry) ==
               /\ dlq_files' = [p \in (DOMAIN dlq_files) \cup {filepath} |->
                                   IF p = filepath THEN dlq_entry ELSE dlq_files[p]]
               /\ dlq_calls' = Append(dlq_calls, [path |-> filepath, entry |-> dlq_entry])
       IN  written_as(node_name \o "/" \o strftime(utcnow) \o item_suffix \o ".json",
                      [node |-> node_name, item_id |-> item_id, timestamp |-> utcnow,
                       payload |-> payload])
    /\ UNCHANGED <<exit_code, client_timestamps, caller, auxVars>>
    /\ UNCHANGED <<dagVars, ctx_errors, limVars, clsVars, stgVars, resVars>>

\* the second of datetime.utcnow() changes
DlqSecondPasses ==
    /\ dlq_calls # <<>>
    /\ utcnow < MaxDlqSeconds
    /\ utcnow' = utcnow + 1
    /\ UNCHANGED <<enable_cache, enable_fallback, cache, cls_workers, cls_pc, cls_item,
                   cls_out, oracle_calls, cache_writes, cls_calls_left>>
    /\ UNCHANGED <<dagVars, ctx_errors, limVars, stgVars, resVars, runVars, auxVars>>

\* an empty dlq_dir at the start of a run
InitDlq ==
    /\ RunIdle /\ StoIdle /\ UfIdle
    /\ DagIdle /\ ctx_errors = <<>> /\ LimIdle /\ ClsIdle /\ StgIdle /\ ResIdle

NextDlq ==
    \/ \E node_name \in Classifiers, item_id \in {NoItemId, "US1", "US2"},
          payload \in 1..MaxPayloads : WriteToDlq(node_name, item_id, payload)
    \/ DlqSecondPasses

SpecDlq == InitDlq /\ [][NextDlq]_vars

\* C19: every write_to_dlq call of a run returns a path of its own, also
\* when two failures of one node fall into the same second with the same
\* item id or with none, and no document is overwritten: each call's
\* document is still what its file holds.
C19_DlqPathsDistinct ==
    /\ \A i, j \in 1..Len(dlq_calls) : dlq_calls[i].path = dlq_calls[j].path => i = j
    /\ \A i \in 1..Len(dlq_calls) : dlq_files[dlq_calls[i].path] = dlq_calls[i].entry
    /\ Cardinality(DOMAIN dlq_files) = Len(dlq_calls)

(***************************************************************************)
(* clients/supabase_client.py: SupabaseClient.upsert under tenacity's       *)
(* @retry.  Times are in milliseconds.  .execute() returns or raises; the  *)
(* server reports a rejected write, a schema mismatch among them, as an    *)
(* APIError, and the transport fails with ConnectionError or TimeoutError. *)
(***************************************************************************)
MAX_RETRIES == 3
RETRY_BACKOFF == 500
RETRY_BACKOFF_MAX == 10000

MaxUpsertCalls == 2

\* what .execute() may raise
ExecuteErrors == {"APIError", "ConnectionError", "TimeoutError"}

\* the two except clauses of upsert: an APIError is re-raised, anything
\* else leaves as a RuntimeError
raised_by_upsert(e) == IF e = "APIError" THEN "APIError" ELSE "RuntimeError"

\* retry_if_exception_type((APIError, ConnectionError, TimeoutError))
retry_if_exception_type(exc) == exc \in {"APIError", "ConnectionError", "TimeoutError"}

\* wait_exponential(multiplier=RETRY_BACKOFF, max=RETRY_BACKOFF_MAX) after
\* attempt n
wait_exponential(n) ==
    IF RETRY_BACKOFF * 2 ^ (n - 1) < RETRY_BACKOFF_MAX
    THEN RETRY_BACKOFF * 2 ^ (n - 1) ELSE RETRY_BACKOFF_MAX

\* the record of one attempt
Attempt(raised, wait_time) ==
    [call |-> Len(upsert_out) + 1, attempt |-> attempt_number, error |-> raised,
     wait |-> wait_time]

\* upsert is called: empty rows return at once, inside the first attempt
UpsertCalled(rows) ==
    /\ upsert_pc = "idle"
    /\ Len(upsert_out) < MaxUpsertCalls
    /\ attempt_number' = 1
    /\ IF rows = 0
       THEN /\ upsert_out' = Append(upsert_out, "returned")
            /\ upsert_pc' = "idle"
       ELSE /\ upsert_pc' = "executing"
            /\ UNCHANGED upsert_out
    /\ UNCHANGED <<upsert_log, ufVars>>
    /\ UNCHANGED <<dagVars, ctx_errors, limVars, clsVars, stgVars, resVars, runVars>>

\* .execute() returned: upsert returns the response
UpsertReturns ==
    /\ upsert_pc = "executing"
    /\ upsert_log' = Append(upsert_log, Attempt("none", 0))
    /\ upsert_out' = Append(upsert_out, "returned")
    /\ upsert_pc' = "idle"
    /\ UNCHANGED <<attempt_number, ufVars>>
    /\ UNCHANGED <<dagVars, ctx_errors, limVars, clsVars, stgVars, resVars, runVars>>

\* .execute() raised e: upsert raises, and the decorator retries after a
\* wait, or gives up with RetryError, or lets the exception through
UpsertRaises(e) ==
    /\ upsert_pc = "executing"
    /\ \E exc \in {raised_by_upsert(e)} :
          IF retry_if_exception_type(exc)
          THEN IF attempt_number >= MAX_RETRIES
               THEN /\ upsert_log' = Append(upsert_log, Attempt(e, 0))
                    /\ upsert_out' = Append(upsert_out, "RetryError")
                    /\ upsert_pc' = "idle"
               ELSE /\ upsert_log' = Append(upsert_log,
                                            Attempt(e, wait_exponential(attempt_number)))
                    /\ upsert_pc' = "sleeping"
                    /\ UNCHANGED upsert_out
          ELSE /\ upsert_log' = Append(upsert_log, Attempt(e, 0))
               /\ upsert_out' = Append(upsert_out, exc)
               /\ upsert_pc' = "idle"
    /\ UNCHANGED <<attempt_number, ufVars>>
    /\ UNCHANGED <<dagVars, ctx_errors, limVars, clsVars, stgVars, resVars, runVars>>

\* the decorator's sleep ends: the next attempt calls upsert again
UpsertSleepEnds ==
    /\ upsert_pc = "sleeping"
    /\ attempt_number' = attempt_number + 1
    /\ upsert_pc' = "executing"
    /\ UNCHANGED <<upsert_log, upsert_out, ufVars>>
    /\ UNCHANGED <<dagVars, ctx_errors, limVars, clsVars, stgVars, resVars, runVars>>

InitUpsert ==
    /\ upsert_pc = "idle"
    /\ attempt_number = 0
    /\ upsert_log = <<>>
    /\ upsert_out = <<>>
    /\ UfIdle /\ RunIdle
    /\ DagIdle /\ ctx_errors = <<>> /\ LimIdle /\ ClsIdle /\ StgIdle /\ ResIdle

NextUpsert ==
    \/ \E rows \in 0..1 : UpsertCalled(rows)
    \/ UpsertReturns
    \/ \E e \in ExecuteErrors : UpsertRaises(e)
    \/ UpsertSleepEnds

SpecUpsert == InitUpsert /\ [][NextUpsert]_vars

\* C25: an upsert whose write fails with a connection error or a timeout is
\* tried again after a backoff, up to MAX_RETRIES attempts in all; a write
\* rejected for good, as on a schema mismatch, surfaces after the first
\* attempt with no retry.
C25_RetryTransientOnly ==
    \A i \in DOMAIN upsert_log :
        /\ upsert_log[i].attempt <= MAX_RETRIES
        /\ (upsert_log[i].error \in {"ConnectionError", "TimeoutError"}
               /\ upsert_log[i].attempt < MAX_RETRIES) =>
              upsert_log[i].wait = wait_exponential(upsert_log[i].attempt)
        /\ upsert_log[i].error = "APIError" =>
              /\ upsert_log[i].attempt = 1
              /\ upsert_log[i].wait = 0

(***************************************************************************)
(* logic/name_normalizer.py.  Names are strings over the ASCII characters  *)
(* below, on which Unicode NFC changes nothing and the only white space is *)
(* the blank.                                                              *)
(***************************************************************************)
MaxNameTokens == 3
MaxPasses == 2

\* the characters names are made of, in code-point order
ASCII == " &,-./0123456789ABCDEFGHIJKLMNOPQRSTUVWXYZ_abcdefghijklmnopqrstuvwxyz"

\* the code point order of the characters
ord ==
    [c \in {SubSeq(ASCII, i, i) : i \in 1..Len(ASCII)} |->
        CHOOSE i \in 1..Len(ASCII) : SubSeq(ASCII, i, i) = c]

RECURSIVE lower(_)
\* str.lower
lower(s) ==
    IF s = "" THEN ""
    ELSE LET c == Head(s)
             l == IF ord[c] >= ord["A"] /\ ord[c] <= ord["Z"]
                  THEN SubSeq(ASCII, ord[c] + ord["a"] - ord["A"],
                              ord[c] + ord["a"] - ord["A"])
                  ELSE c
         IN  l \o lower(Tail(s))

RECURSIVE clean(_)
\* & becomes " and ", / becomes a blank, then re.sub(r'[^\w\s]', '', name)
clean(s) ==
    IF s = "" THEN ""
    ELSE LET c == Head(s)
             kept == IF c = "&" THEN " and "
                     ELSE IF c = "/" THEN " "
                     ELSE IF c = " " \/ ord[c] >= ord["0"] THEN c
                     ELSE ""
         IN  kept \o clean(Tail(s))

RECURSIVE split(_, _)
\* str.split: the maximal runs of non-blanks of s, after the run token
split(s, token) ==
    LET ended == IF token = "" THEN <<>> ELSE <<token>>
    IN  IF s = "" THEN ended
        ELSE IF Head(s) = " " THEN ended \o split(Tail(s), "")
        ELSE split(Tail(s), token \o Head(s))

RECURSIVE join(_)
\* ' '.join
join(tokens) ==
    IF Len(tokens) = 0 THEN ""
    ELSE IF Len(tokens) = 1 THEN tokens[1]
    ELSE tokens[1] \o " " \o join(Tail(tokens))

\* P4Config.LEGAL_SUFFIXES and P4Config.CORPORATE_STOPWORDS
LEGAL_SUFFIXES ==
    <<"inc", "incorporated", "corp", "corporation", "ltd", "limited",
      "llc", "l.l.c.", "co", "company", "plc", "p.l.c.",
      "s.a.", "sa", "ag", "gmbh", "bv", "b.v.", "n.v.", "nv",
      "pte", "pty", "oy", "kk", "k.k.", "kft", "srl", "s.r.l.",
      "ab", "as", "a/s", "spa", "s.p.a.", "kg", "gmbh & co. kg">>

CORPORATE_STOPWORDS ==
    {"technologies", "technology", "systems", "solutions",
     "holdings", "group", "international", "global",
     "services", "software", "labs", "laboratory"}

\* NameNormalizer.__init__
legal_suffixes == {lower(LEGAL_SUFFIXES[i]) : i \in DOMAIN LEGAL_SUFFIXES}
stopwords == {lower(word) : word \in CORPORATE_STOPWORDS}

\* NameNormalizer._remove_legal_suffixes
remove_legal_suffixes(tokens) ==
    LET without_last(t) ==
            IF Len(t) > 0 /\ t[Len(t)] \in legal_suffixes
            THEN SubSeq(t, 1, Len(t) - 1) ELSE t
        without_last_two(t) ==
            IF Len(t) >= 2 /\ (t[Len(t) - 1] \o " " \o t[Len(t)]) \in legal_suffixes
            THEN SubSeq(t, 1, Len(t) - 2) ELSE t
    IN  without_last_two(without_last(tokens))

RECURSIVE unique_tokens(_, _)
\* the loop that drops the tokens already seen
unique_tokens(tokens, seen) ==
    IF Len(tokens) = 0 THEN <<>>
    ELSE IF Head(tokens) \in seen THEN unique_tokens(Tail(tokens), seen)
    ELSE <<Head(tokens)>> \o unique_tokens(Tail(tokens), seen \cup {Head(tokens)})

\* NameNormalizer.normalize
normalize(name) ==
    LET without_stopword(tokens) ==
            IF Len(tokens) > 2 /\ tokens[Len(tokens)] \in stopwords
            THEN SubSeq(tokens, 1, Len(tokens) - 1) ELSE tokens
    IN  IF name = "" THEN ""
        ELSE join(unique_tokens(
                 without_stopword(remove_legal_suffixes(split(clean(lower(name)), ""))),
                 {}))

\* the raw names: up to MaxNameTokens words
RawNames ==
    {join(words) :
        words \in SeqsUpTo({"Acme", "Corp", "Inc.", "Systems", "&", "A/S"}, MaxNameTokens)}

\* a caller has a raw name to normalize
InitNormalizer ==
    /\ nrm_name \in RawNames
    /\ normalized = ""
    /\ passes = 0
    /\ input_names = <<>>
    /\ unique_names = <<>>
    /\ candidates = <<>>
    /\ raw_clusters = <<>>
    /\ clusters = <<>>
    /\ canonical_map = <<>>
    /\ entities = <<>>
    /\ links = <<>>
    /\ res_pc = "none"
    /\ run_no = 0
    /\ first_entities = {}
    /\ DagIdle /\ ctx_errors = <<>> /\ LimIdle /\ ClsIdle /\ StgIdle /\ RunIdle /\ StoIdle /\ UfIdle

\* normalize is applied to the raw name, then to what it returned
Normalize ==
    /\ passes < MaxPasses
    /\ normalized' = normalize(IF passes = 0 THEN nrm_name ELSE normalized)
    /\ passes' = passes + 1
    /\ UNCHANGED <<nrm_name, input_names, unique_names, candidates, raw_clusters,
                   clusters, canonical_map, entities, links, res_pc, run_no,
                   first_entities>>
    /\ UNCHANGED notRes

SpecNormalizer == InitNormalizer /\ [][Normalize]_vars

(***************************************************************************)
(* Claims about the normalizer.                                            *)
(***************************************************************************)
\* C7: normalization is idempotent: normalizing a normalized name gives
\* the same string back, whatever trailing legal-suffix and stopword tokens
\* the raw name carries.
C7_NormalizeIdempotent ==
    passes >= 2 => normalized = normalize(nrm_name)

(***************************************************************************)
(* The entity resolver: logic/blocking.py, logic/similarity.py,            *)
(* logic/clusterer.py, models/entities.py, services/entity_resolver.py.    *)
(* A dict is the sequence of its items in insertion order.  A score is the *)
(* exact fraction [num, den]; weights and thresholds are in hundredths.    *)
(* CHOOSE done \in {f(x) : x \in {v}} : TRUE is f(v) with v evaluated      *)
(* before the call, as Python evaluates the operand of a statement.        *)
(***************************************************************************)
MIN_BLOCK_SIZE == 2
MAX_BLOCK_SIZE == 1000
MAX_CLUSTER_SIZE == 20
HARD_MATCH_THRESHOLD == 88
SOFT_MATCH_THRESHOLD == 70
WEIGHT_TOKEN_JACCARD == 35
WEIGHT_EDIT_DISTANCE == 25
WEIGHT_JARO_WINKLER == 15
WEIGHT_ACRONYM == 25

has_key(d, k) == \E i \in DOMAIN d : d[i].key = k

dict_get(d, k, default) ==
    IF has_key(d, k) THEN d[CHOOSE i \in DOMAIN d : d[i].key = k].value ELSE default

\* d[k] = v
dict_set(d, k, v) ==
    IF has_key(d, k)
    THEN [i \in DOMAIN d |-> IF d[i].key = k THEN [key |-> k, value |-> v] ELSE d[i]]
    ELSE Append(d, [key |-> k, value |-> v])

RECURSIVE sorted(_)
\* sorted() of a list of strings; a < b on str goes by code point, a proper
\* prefix first
sorted(strs) ==
    LET RECURSIVE str_lt(_, _)
        str_lt(a, b) ==
            IF b = "" THEN FALSE
            ELSE IF a = "" THEN TRUE
            ELSE IF Head(a) = Head(b) THEN str_lt(Tail(a), Tail(b))
            ELSE ord[Head(a)] < ord[Head(b)]
        least_first(least) ==
            <<strs[least]>>
                \o sorted([j \in 1..(Len(strs) - 1) |->
                              IF j < least THEN strs[j] ELSE strs[j + 1]])
    IN  IF Len(strs) = 0 THEN <<>>
        ELSE least_first(CHOOSE i \in DOMAIN strs :
                             \A j \in DOMAIN strs :
                                 ~str_lt(strs[j], strs[i]) \/ (strs[j] = strs[i]))

\* BlockingStrategy.generate_blocking_keys
generate_blocking_keys(name) ==
    LET RECURSIVE concat(_)
        concat(strs) == IF Len(strs) = 0 THEN "" ELSE Head(strs) \o concat(Tail(strs))
        RECURSIVE decimal(_)
        decimal(n) == (IF n >= 10 THEN decimal(n \div 10) ELSE "")
                          \o SubSeq("0123456789", (n % 10) + 1, (n % 10) + 1)
        prefix(str, n) == SubSeq(str, 1, IF Len(str) < n THEN Len(str) ELSE n)
        keys(norm, tokens) ==
            IF norm = "" THEN <<>>
            ELSE (IF Len(tokens) > 0 THEN <<"first:" \o tokens[1]>> ELSE <<>>)
                 \o <<"prefix:" \o prefix(norm, 3)>>
                 \o (IF Len(tokens) > 0
                     THEN <<"sig:" \o prefix(concat(sorted(tokens)), 10)>> ELSE <<>>)
                 \o <<"len:" \o decimal(Len(norm) \div 10)>>
        tokenized(norm) == keys(norm, split(norm, ""))
    IN  tokenized(normalize(name))

\* BlockingStrategy.generate_candidates: the set of candidate pairs
generate_candidates(names) ==
    LET RECURSIVE add_keys(_, _, _)
        add_keys(index, name, keys) ==
            IF Len(keys) = 0 THEN index
            ELSE CHOOSE done \in
                         {add_keys(added, name, Tail(keys)) :
                             added \in {dict_set(index, Head(keys),
                                       Append(dict_get(index, Head(keys), <<>>), name))}} : TRUE
        RECURSIVE add_names(_, _)
        add_names(index, todo) ==
            IF Len(todo) = 0 THEN index
            ELSE CHOOSE done \in
                         {add_names(added, Tail(todo)) :
                             added \in {add_keys(index, Head(todo), generate_blocking_keys(Head(todo)))}} : TRUE
        pairs_of(block_names) ==
            {sorted(<<block_names[i], block_names[j]>>) :
                <<i, j>> \in {ij \in (DOMAIN block_names) \X (DOMAIN block_names) :
                                 ij[1] < ij[2]}}
        pairs_within(blocks) ==
            UNION {pairs_of(blocks[b].value) :
                     b \in {k \in DOMAIN blocks :
                                /\ Len(blocks[k].value) >= MIN_BLOCK_SIZE
                                /\ Len(blocks[k].value) <= MAX_BLOCK_SIZE}}
    IN  pairs_within(add_names(<<>>, names))

\* the float n / d, kept exact and in lowest terms
fraction(n, d) ==
    LET RECURSIVE gcd(_, _)
        gcd(a, b) == IF b = 0 THEN a ELSE gcd(b, a % b)
        lowest(divisor) == [num |-> n \div divisor, den |-> d \div divisor]
    IN  lowest(gcd(n, d))

\* SimilarityCalculator.token_jaccard
token_jaccard(tokens1, tokens2) ==
    IF tokens1 = {} /\ tokens2 = {} THEN fraction(1, 1)
    ELSE IF tokens1 = {} \/ tokens2 = {} THEN fraction(0, 1)
    ELSE fraction(Cardinality(tokens1 \cap tokens2), Cardinality(tokens1 \cup tokens2))

\* SimilarityCalculator.edit_distance_ratio; Levenshtein.ratio is
\* (len1 + len2 - d) / (len1 + len2) for the edit distance d in which a
\* substitution costs two, that is 2 * lcs / (len1 + len2)
edit_distance_ratio(str1, str2) ==
    LET larger(m, n) == IF m >= n THEN m ELSE n
        RECURSIVE lcs(_, _)
        lcs(a, b) ==
            IF a = "" \/ b = "" THEN 0
            ELSE IF Head(a) = Head(b) THEN 1 + lcs(Tail(a), Tail(b))
            ELSE larger(lcs(Tail(a), b), lcs(a, Tail(b)))
    IN  IF str1 = "" /\ str2 = "" THEN fraction(1, 1)
        ELSE IF str1 = "" \/ str2 = "" THEN fraction(0, 1)
        ELSE fraction(2 * lcs(str1, str2), Len(str1) + Len(str2))

\* SimilarityCalculator.jaro_winkler; jellyfish.jaro_winkler_similarity
\* flags the characters of str1 that have an unflagged equal in str2 within
\* the search range, counts half the flagged pairs that differ in order, and
\* boosts a weight above 0.7 by the common prefix of up to four characters
jaro_winkler(str1, str2) ==
    LET at(str, i) == SubSeq(str, i, i)
        larger(m, n) == IF m >= n THEN m ELSE n
        smaller(m, n) == IF m <= n THEN m ELSE n
        search_range == larger(0, larger(Len(str1), Len(str2)) \div 2 - 1)
        least(S) == CHOOSE x \in S : \A y \in S : x <= y
        nth(S, k) == CHOOSE x \in S : Cardinality({y \in S : y < x}) = k - 1
        RECURSIVE flag(_, _, _)
        flag(i, flags1, flags2) ==
            LET flagged(free) ==
                    IF free = {} THEN flag(i + 1, flags1, flags2)
                    ELSE flag(i + 1, flags1 \cup {i}, flags2 \cup {least(free)})
            IN  IF i > Len(str1) THEN <<flags1, flags2>>
                ELSE flagged({j \in larger(1, i - search_range)
                                       ..smaller(i + search_range, Len(str2)) :
                                 j \notin flags2 /\ at(str2, j) = at(str1, i)})
        RECURSIVE common_prefix(_)
        common_prefix(i) ==
            IF i < smaller(Len(str1), Len(str2)) /\ i < 4 /\ at(str1, i + 1) = at(str2, i + 1)
            THEN common_prefix(i + 1) ELSE i
        boost(weight) ==
            IF 10 * weight.num > 7 * weight.den
            THEN fraction(10 * weight.num + common_prefix(0) * (weight.den - weight.num),
                          10 * weight.den)
            ELSE weight
        weigh(common_chars, trans_count) ==
            IF common_chars = 0 THEN fraction(0, 1)
            ELSE boost(fraction(common_chars * common_chars * (Len(str1) + Len(str2))
                                    + (common_chars - trans_count) * Len(str1) * Len(str2),
                                3 * Len(str1) * Len(str2) * common_chars))
        count(flags) ==
            weigh(Cardinality(flags[1]),
                  Cardinality({k \in 1..Cardinality(flags[1]) :
                                  at(str1, nth(flags[1], k)) # at(str2, nth(flags[2], k))})
                      \div 2)
    IN  IF str1 = "" /\ str2 = "" THEN fraction(1, 1)
        ELSE IF str1 = "" \/ str2 = "" THEN fraction(0, 1)
        ELSE count(flag(1, {}, {}))

\* NameNormalizer.extract_tokens
extract_tokens(name) ==
    LET token_set(norm) == IF norm # "" THEN Range(split(norm, "")) ELSE {}
    IN  token_set(normalize(name))

\* P4Config.ACRONYM_EXPANSIONS
ACRONYM_EXPANSIONS ==
    <<[key |-> "pan", value |-> "palo alto networks"],
      [key |-> "vmw", value |-> "vmware"],
      [key |-> "csco", value |-> "cisco"],
      [key |-> "crwd", value |-> "crowdstrike"],
      [key |-> "ftnt", value |-> "fortinet"],
      [key |-> "panw", value |-> "palo alto networks"],
      [key |-> "zs", value |-> "zscaler"],
      [key |-> "okta", value |-> "okta"]>>

\* NameNormalizer.expand_acronym
expand_acronym(acronym) ==
    LET expansion(norm) == dict_get(ACRONYM_EXPANSIONS, norm, norm)
    IN  expansion(normalize(acronym))

\* NameNormalizer.matches_acronym; iteration[name] is the order in which
\* the token set of name is iterated, which Python leaves to the hash seed
matches_acronym(full_name, acronym, iteration) ==
    LET RECURSIVE first_letters(_)
        first_letters(tokens) ==
            IF Len(tokens) = 0 THEN ""
            ELSE Head(Head(tokens)) \o first_letters(Tail(tokens))
        RECURSIVE without_w(_)
        without_w(str) ==
            IF str = "" THEN ""
            ELSE (IF Head(str) = "w" THEN "" ELSE Head(str)) \o without_w(Tail(str))
        same(initials, acronym_normalized) ==
            initials = acronym_normalized \/ without_w(initials) = acronym_normalized
        matches(full_tokens, acronym_normalized) ==
            IF Len(full_tokens) = 0 \/ acronym_normalized = "" THEN FALSE
            ELSE same(first_letters(full_tokens), acronym_normalized)
    IN  matches(iteration[full_name], normalize(acronym))

\* SimilarityCalculator.acronym_score, with USE_ACRONYM_EXPANSION at its default
acronym_score(name1, name2, iteration) ==
    LET expansions_match(expanded1, expanded2) ==
            /\ expanded1 # name1 \/ expanded2 # name2
            /\ \/ expanded1 = expanded2
               \/ normalize(expanded1) = normalize(name2)
               \/ normalize(expanded2) = normalize(name1)
    IN  IF matches_acronym(name1, name2, iteration) THEN 1
        ELSE IF matches_acronym(name2, name1, iteration) THEN 1
        ELSE IF expansions_match(expand_acronym(name1), expand_acronym(name2)) THEN 1
        ELSE 0

\* SimilarityCalculator.composite_score
composite_score(name1, name2, iteration) ==
    LET components(jaccard, edit, jaro, acronym) ==
            [jaccard |-> jaccard, edit |-> edit, jaro |-> jaro, acronym |-> acronym,
             composite |->
                 fraction(WEIGHT_TOKEN_JACCARD * jaccard.num * edit.den * jaro.den
                              + WEIGHT_EDIT_DISTANCE * edit.num * jaccard.den * jaro.den
                              + WEIGHT_JARO_WINKLER * jaro.num * jaccard.den * edit.den
                              + WEIGHT_ACRONYM * acronym * jaccard.den * edit.den * jaro.den,
                          100 * jaccard.den * edit.den * jaro.den)]
        scored(norm1, norm2) ==
            components(token_jaccard(extract_tokens(name1), extract_tokens(name2)),
                       edit_distance_ratio(norm1, norm2),
                       jaro_winkler(norm1, norm2),
                       acronym_score(name1, name2, iteration))
    IN  scored(normalize(name1), normalize(name2))

\* SimilarityCalculator.is_match
is_match(name1, name2, iteration) ==
    LET at_least(x, h) == 100 * x.num >= h * x.den
        decided(components) ==
            IF at_least(components.composite, HARD_MATCH_THRESHOLD) THEN TRUE
            ELSE IF at_least(components.composite, SOFT_MATCH_THRESHOLD)
            THEN \/ components.acronym = 1
                 \/ at_least(components.jaccard, 80)
                 \/ at_least(components.edit, 90)
            ELSE FALSE
    IN  decided(composite_score(name1, name2, iteration))

RECURSIVE find(_, _)
\* UnionFind.find: the root of x and the structure after the call
find(uf, x) ==
    LET compressed(above) ==
            [uf |-> [above.uf EXCEPT !.parent[x] = above.root], root |-> above.root]
    IN  IF x \notin DOMAIN uf.parent
        THEN [uf |-> [keys |-> Append(uf.keys, x),
                      parent |-> (x :> x) @@ uf.parent,
                      rank |-> (x :> 0) @@ uf.rank],
              root |-> x]
        ELSE IF uf.parent[x] # x THEN compressed(find(uf, uf.parent[x]))
        ELSE [uf |-> uf, root |-> x]

\* a union that hangs y itself, not its root, under x
union_of_elements(uf, x, y) ==
    LET linked(now) == IF x = y THEN now ELSE [now EXCEPT !.parent[y] = x]
        with_x(found_x) ==
            CHOOSE done \in {linked(found_y.uf) : found_y \in {find(found_x.uf, y)}} : TRUE
    IN  CHOOSE done \in {with_x(found_x) : found_x \in {find(uf, x)}} : TRUE

\* UnionFind.union
union(uf, x, y) ==
    LET linked(now, root_x, root_y) ==
            IF root_x = root_y THEN now
            ELSE IF now.rank[root_x] < now.rank[root_y]
            THEN [now EXCEPT !.parent[root_x] = root_y]
            ELSE IF now.rank[root_x] > now.rank[root_y]
            THEN [now EXCEPT !.parent[root_y] = root_x]
            ELSE [now EXCEPT !.parent[root_y] = root_x, !.rank[root_x] = @ + 1]
        with_root_x(found_x) ==
            CHOOSE done \in {linked(found_y.uf, found_x.root, found_y.root) :
                                found_y \in {find(found_x.uf, y)}} : TRUE
    IN  CHOOSE done \in {with_root_x(found_x) : found_x \in {find(uf, x)}} : TRUE

\* UnionFind.get_clusters
get_clusters(uf) ==
    LET RECURSIVE collect(_, _, _)
        collect(state, elements, found) ==
            LET appended(element) ==
                    CHOOSE done \in
                        {collect(element.uf, Tail(elements), added) :
                            added \in {dict_set(found, element.root,
                                                Append(dict_get(found, element.root, <<>>),
                                                       Head(elements)))}} : TRUE
            IN  IF Len(elements) = 0 THEN found
                ELSE CHOOSE done \in {appended(element) :
                                         element \in {find(state, Head(elements))}} : TRUE
    IN  collect(uf, uf.keys, <<>>)

\* Clusterer.select_canonical with CANONICAL_STRATEGY 'longest': max()
\* returns the first of the members of greatest normalized length
select_canonical(names) ==
    LET first_max(lengths) ==
            CHOOSE i \in DOMAIN names :
                /\ \A j \in DOMAIN names : lengths[j] <= lengths[i]
                /\ \A j \in 1..(i - 1) : lengths[j] < lengths[i]
    IN  IF Len(names) = 0 THEN ""
        ELSE IF Len(names) = 1 THEN names[1]
        ELSE names[first_max([i \in DOMAIN names |-> Len(normalize(names[i]))])]

\* the matches united one after the other, cluster_names' first loop
unite(matches) ==
    LET RECURSIVE loop(_, _, _)
        \* the structure uf after the matches from first to last
        loop(uf, first, last) ==
            IF first > last THEN uf
            ELSE IF first = last THEN union(uf, matches[first][1], matches[first][2])
            ELSE CHOOSE done \in
                         {loop(half, (first + last) \div 2 + 1, last) :
                             half \in {loop(uf, first, (first + last) \div 2)}} : TRUE
    IN  loop([keys |-> <<>>, parent |-> <<>>, rank |-> <<>>], 1, Len(matches))

\* Clusterer.cluster_names without the size test
cluster_names_unbounded(matches) ==
    LET RECURSIVE filter(_, _)
        filter(filtered_clusters, todo) ==
            IF Len(todo) = 0 THEN filtered_clusters
            ELSE CHOOSE done \in
                         {filter(added, Tail(todo)) :
                             added \in {dict_set(filtered_clusters,
                                       select_canonical(Head(todo).value), Head(todo).value)}} : TRUE
    IN  filter(<<>>, get_clusters(unite(matches)))

\* Clusterer.cluster_names
cluster_names(matches) ==
    LET RECURSIVE split_up(_, _)
        split_up(filtered_clusters, members) ==
            IF Len(members) = 0 THEN filtered_clusters
            ELSE CHOOSE done \in
                         {split_up(added, Tail(members)) :
                             added \in {dict_set(filtered_clusters, Head(members), <<Head(members)>>)}} : TRUE
        RECURSIVE filter(_, _)
        filter(filtered_clusters, todo) ==
            IF Len(todo) = 0 THEN filtered_clusters
            ELSE CHOOSE done \in
                         {filter(added, Tail(todo)) :
                             added \in {IF Len(Head(todo).value) > MAX_CLUSTER_SIZE
                                       THEN split_up(filtered_clusters, Head(todo).value)
                                       ELSE dict_set(filtered_clusters,
                                                     select_canonical(Head(todo).value),
                                                     Head(todo).value)}} : TRUE
    IN  filter(<<>>, get_clusters(unite(matches)))

\* ResolvedEntity.create_entity_id: the digest of the lowercased name
create_entity_id(canonical_name) == "sha256:" \o lower(canonical_name)

\* create_resolved_entities; ResolvedEntity.__post_init__ drops the
\* repetitions among the aliases
create_resolved_entities(cluster_items) ==
    [i \in DOMAIN cluster_items |->
        [entity_id |-> create_entity_id(cluster_items[i].key),
         canonical_name |-> cluster_items[i].key,
         aliases |-> unique_tokens(cluster_items[i].value, {})]]

\* create_alias_links with the id of the raw name
create_alias_links_by_raw_name(map_items) ==
    [i \in DOMAIN map_items |->
        [raw_name |-> map_items[i].key,
         canonical_name |-> map_items[i].value,
         entity_id |-> create_entity_id(map_items[i].key)]]

\* create_alias_links
create_alias_links(map_items) ==
    [i \in DOMAIN map_items |->
        [raw_name |-> map_items[i].key,
         canonical_name |-> map_items[i].value,
         entity_id |-> create_entity_id(map_items[i].value)]]

MaxNames == 3
MaxShuffled == 3

\* the raw names of the small inputs: three names of one company, an
\* acronym pair, a name that is only a legal suffix, in two spellings
NamePool == {"Acme Co", "Acme Inc", "Acme Ltd", "Ox X", "Ox", "Inc", "INC"}

RECURSIVE SameCompany(_)
\* n different raw names of one company
SameCompany(n) ==
    IF n = 0 THEN <<>> ELSE Append(SameCompany(n - 1), "Sec " \o LEGAL_SUFFIXES[n])

\* the orders in which list() may iterate the set S: every order of a
\* small set, and for a larger one the order of base and its reverse,
\* where base is a list without repetitions that holds every element of S
Orders(S, base) ==
    IF Cardinality(S) <= MaxShuffled THEN Perms(S)
    ELSE LET kept(x) == x \in S
             forward == SelectSeq(base, kept)
         IN  {forward, [i \in DOMAIN forward |-> forward[Len(forward) + 1 - i]]}

\* the orders in which the token sets of the names may be iterated
Iterations(names) ==
    {iteration \in [names -> UNION {Perms(extract_tokens(name)) : name \in names}] :
        \A name \in names : Range(iteration[name]) = extract_tokens(name)}

\* the (entity_id, aliases) pairs of a run
entity_pairs(resolved) ==
    {[entity_id |-> resolved[i].entity_id, aliases |-> Range(resolved[i].aliases)] :
        i \in DOMAIN resolved}

\* a resolver and the names it is called with: a short list over the
\* pool, or the names of one company up to and just above the size cap
InitResolver ==
    /\ nrm_name = ""
    /\ normalized = ""
    /\ passes = 0
    /\ input_names \in SeqsUpTo(NamePool, MaxNames)
                           \cup {SameCompany(MAX_CLUSTER_SIZE),
                                 SameCompany(MAX_CLUSTER_SIZE + 1)}
    /\ unique_names = <<>>
    /\ candidates = <<>>
    /\ raw_clusters = <<>>
    /\ clusters = <<>>
    /\ canonical_map = <<>>
    /\ entities = <<>>
    /\ links = <<>>
    /\ res_pc = "start"
    /\ run_no = 1
    /\ first_entities = {}
    /\ DagIdle /\ ctx_errors = <<>> /\ LimIdle /\ ClsIdle /\ StgIdle /\ RunIdle /\ StoIdle /\ UfIdle

\* resolve: unique_names = list(set(names))
Dedupe ==
    /\ res_pc = "start"
    /\ unique_names' \in Orders(Range(input_names), unique_tokens(input_names, {}))
    /\ res_pc' = "blocking"
    /\ UNCHANGED <<nrm_name, normalized, passes, input_names, candidates, raw_clusters,
                   clusters, canonical_map, entities, links, run_no, first_entities>>
    /\ UNCHANGED notRes

\* resolve: candidates = self.blocking.generate_candidates(unique_names),
\* which ends in list(candidates)
GenerateCandidates ==
    /\ res_pc = "blocking"
    /\ LET RECURSIVE all_pairs(_)
           all_pairs(names) ==
               IF Len(names) <= 1 THEN <<>>
               ELSE [j \in 1..(Len(names) - 1) |-> sorted(<<names[1], names[j + 1]>>)]
                        \o all_pairs(Tail(names))
       IN  candidates' \in Orders(generate_candidates(unique_names),
                                  all_pairs(unique_names))
    /\ res_pc' = "matching"
    /\ UNCHANGED <<nrm_name, normalized, passes, input_names, unique_names, raw_clusters,
                   clusters, canonical_map, entities, links, run_no, first_entities>>
    /\ UNCHANGED notRes

\* resolve: the matching loop and self.clusterer.cluster_names(matches)
ClusterMatches ==
    /\ res_pc = "matching"
    /\ \E iteration \in Iterations(Range(unique_names)) :
           LET matched(pair) == is_match(pair[1], pair[2], iteration)
           IN  \E matches \in {SelectSeq(candidates, matched)} :
                   /\ raw_clusters' = get_clusters(unite(matches))
                   /\ clusters' = cluster_names(matches)
    /\ res_pc' = "mapping"
    /\ UNCHANGED <<nrm_name, normalized, passes, input_names, unique_names, candidates,
                   canonical_map, entities, links, run_no, first_entities>>
    /\ UNCHANGED notRes

\* resolve: the canonical map, the singletons, the entities and the links
EmitEntities ==
    /\ res_pc = "mapping"
    /\ LET RECURSIVE map_aliases(_, _, _)
           map_aliases(map_items, canonical, aliases) ==
               IF Len(aliases) = 0 THEN map_items
               ELSE CHOOSE done \in
                            {map_aliases(added, canonical, Tail(aliases)) :
                                added \in {dict_set(map_items, Head(aliases), canonical)}} : TRUE
           RECURSIVE map_clusters(_, _)
           map_clusters(map_items, todo) ==
               IF Len(todo) = 0 THEN map_items
               ELSE CHOOSE done \in
                            {map_clusters(added, Tail(todo)) :
                                added \in {map_aliases(map_items, Head(todo).key, Head(todo).value)}} : TRUE
           RECURSIVE add_singletons(_, _)
           add_singletons(both, todo) ==
               IF Len(todo) = 0 THEN both
               ELSE IF has_key(both[1], Head(todo)) THEN add_singletons(both, Tail(todo))
               ELSE CHOOSE done \in
                            {add_singletons(added, Tail(todo)) :
                                added \in {<<dict_set(both[1], Head(todo), Head(todo)),
                                          dict_set(both[2], Head(todo), <<Head(todo)>>)>>}} : TRUE
       IN  \E both \in {add_singletons(<<map_clusters(<<>>, clusters), clusters>>,
                                         unique_names)} :
               /\ canonical_map' = both[1]
               /\ clusters' = both[2]
               /\ entities' = create_resolved_entities(both[2])
               /\ links' = create_alias_links(both[1])
    /\ res_pc' = "done"
    /\ UNCHANGED <<nrm_name, normalized, passes, input_names, unique_names, candidates,
                   raw_clusters, run_no, first_entities>>
    /\ UNCHANGED notRes

\* a second resolver is given the same names
ResolveAgain ==
    /\ res_pc = "done"
    /\ run_no = 1
    /\ first_entities' = entity_pairs(entities)
    /\ run_no' = 2
    /\ res_pc' = "start"
    /\ unique_names' = <<>>
    /\ candidates' = <<>>
    /\ raw_clusters' = <<>>
    /\ clusters' = <<>>
    /\ canonical_map' = <<>>
    /\ entities' = <<>>
    /\ links' = <<>>
    /\ UNCHANGED <<nrm_name, normalized, passes, input_names>>
    /\ UNCHANGED notRes

NextResolver ==
    \/ Dedupe
    \/ GenerateCandidates
    \/ ClusterMatches
    \/ EmitEntities
    \/ ResolveAgain

SpecResolver == InitResolver /\ [][NextResolver]_vars

(***************************************************************************)
(* Claims about the resolver.                                              *)
(***************************************************************************)
\* C8: a second run of the resolver on the same input names yields the
\* same set of (entity_id, aliases) pairs as the first, whatever the
\* iteration orders of the name set, the candidate set and the members.
C8_SameEntitiesOnRerun ==
    (run_no = 2 /\ res_pc = "done") => entity_pairs(entities) = first_entities

\* C9: the resolver emits exactly one AliasLink per distinct raw input
\* name, and the entity_id of every link is the id of its canonical_name.
C9_OneLinkPerName ==
    res_pc = "done" =>
        /\ {links[i].raw_name : i \in DOMAIN links} = Range(input_names)
        /\ \A i, j \in DOMAIN links : links[i].raw_name = links[j].raw_name => i = j
        /\ \A i \in DOMAIN links :
               links[i].entity_id = create_entity_id(links[i].canonical_name)

\* a run on a list with a repeated name that ends with an alias under
\* another name's entity
C9_Witness ==
    /\ res_pc = "done"
    /\ Len(input_names) > Cardinality(Range(input_names))
    /\ \E i \in DOMAIN links : links[i].raw_name # links[i].canonical_name

\* C10: no entity has more than MAX_CLUSTER_SIZE aliases, and every member
\* of a connected component of more than MAX_CLUSTER_SIZE names is emitted
\* as a singleton entity whose AliasLink maps the name to itself.
C10_ClusterSizeCap ==
    res_pc = "done" =>
        /\ \A i \in DOMAIN entities : Len(entities[i].aliases) <= MAX_CLUSTER_SIZE
        /\ \A c \in DOMAIN raw_clusters :
               Len(raw_clusters[c].value) > MAX_CLUSTER_SIZE =>
                   \A member \in Range(raw_clusters[c].value) :
                       /\ \E i \in DOMAIN entities :
                              /\ entities[i].canonical_name = member
                              /\ entities[i].aliases = <<member>>
                       /\ \E i \in DOMAIN links :
                              /\ links[i].raw_name = member
                              /\ links[i].canonical_name = member

\* a run in which union-find built a component above the cap
C10_Witness ==
    /\ res_pc = "done"
    /\ \E c \in DOMAIN raw_clusters : Len(raw_clusters[c].value) > MAX_CLUSTER_SIZE
    /\ Len(entities) > MAX_CLUSTER_SIZE

\* the member of greatest normalized length, and among those of that length
\* the smallest in the order of sorted()
longest_then_smallest(members) ==
    CHOOSE m \in Range(members) :
        \A other \in Range(members) \ {m} :
            \/ Len(normalize(m)) > Len(normalize(other))
            \/ /\ Len(normalize(m)) = Len(normalize(other))
               /\ sorted(<<m, other>>)[1] = m

\* C23: the canonical name of every cluster of two or more members is the
\* member whose normalized form is longest and, among the members tied on
\* that length, the lexicographically smallest original string, in whatever
\* order the members are listed.
C23_CanonicalLongestThenSmallest ==
    res_pc = "mapping" =>
        \A c \in DOMAIN clusters :
            Len(clusters[c].value) >= 2 =>
                clusters[c].key = longest_then_smallest(clusters[c].value)

\* two different input names with one non-empty normalized form
folded_pair(a, b) == a # b /\ normalize(a) = normalize(b) /\ normalize(a) # ""

\* C26: any two distinct input names whose normalized forms are equal and
\* not empty end in one entity that lists both as aliases, and that entity
\* has the same entity_id on every run, as long as the names stay within
\* the cluster size cap.
C26_EqualNormalizedFormsFold ==
    (res_pc = "done" /\ Cardinality(Range(input_names)) <= MAX_CLUSTER_SIZE) =>
        \A a, b \in Range(input_names) :
            folded_pair(a, b) =>
                /\ \E i \in DOMAIN entities : {a, b} \subseteq Range(entities[i].aliases)
                /\ run_no = 2 =>
                      \A i \in DOMAIN entities :
                          {a, b} \subseteq Range(entities[i].aliases) =>
                              \E first \in first_entities :
                                  /\ first.entity_id = entities[i].entity_id
                                  /\ {a, b} \subseteq first.aliases

\* C28: within one resolver run, distinct emitted entities have distinct
\* entity_ids, the singletons of a split oversized cluster and the names
\* that never became candidates included, so that an upsert keyed on
\* entity_id keeps one row per entity.
C28_EntityIdsDistinct ==
    res_pc = "done" =>
        \A i, j \in DOMAIN entities :
            i # j => entities[i].entity_id # entities[j].entity_id

(***************************************************************************)
(* logic/clusterer.py: a UnionFind on its own, given union, find and       *)
(* get_clusters calls in any order.                                        *)
(***************************************************************************)
MaxUnions == 3

UfElements == {"A", "B", "C", "D"}

\* UnionFind.__init__
InitUnionFind ==
    /\ uf_state = [keys |-> <<>>, parent |-> <<>>, rank |-> <<>>]
    /\ uf_pairs = {}
    /\ uf_seen = {}
    /\ uf_clusters = <<>>
    /\ StoIdle /\ RunIdle
    /\ DagIdle /\ ctx_errors = <<>> /\ LimIdle /\ ClsIdle /\ StgIdle /\ ResIdle

\* uf.union(x, y)
UfUnion(x, y) ==
    /\ Cardinality(uf_pairs \cup {<<x, y>>}) <= MaxUnions
    /\ uf_state' = union(uf_state, x, y)
    /\ uf_pairs' = uf_pairs \cup {<<x, y>>}
    /\ uf_seen' = uf_seen \cup {x, y}
    /\ uf_clusters' = <<>>
    /\ UNCHANGED <<dagVars, ctx_errors, limVars, clsVars, stgVars, resVars, runVars, stoVars>>

\* uf.find(x): the path of x is compressed, an unknown x becomes a root
UfFind(x) ==
    /\ uf_state' = find(uf_state, x).uf
    /\ uf_seen' = uf_seen \cup {x}
    /\ uf_clusters' = <<>>
    /\ UNCHANGED uf_pairs
    /\ UNCHANGED <<dagVars, ctx_errors, limVars, clsVars, stgVars, resVars, runVars, stoVars>>

\* uf.get_clusters(): the classes, and the structure after the finds
UfGetClusters ==
    /\ LET RECURSIVE found_all(_, _)
           found_all(state, elements) ==
               IF Len(elements) = 0 THEN state
               ELSE found_all(find(state, Head(elements)).uf, Tail(elements))
       IN  uf_state' = found_all(uf_state, uf_state.keys)
    /\ uf_clusters' = get_clusters(uf_state)
    /\ UNCHANGED <<uf_pairs, uf_seen>>
    /\ UNCHANGED <<dagVars, ctx_errors, limVars, clsVars, stgVars, resVars, runVars, stoVars>>

NextUnionFind ==
    \/ \E x, y \in UfElements : UfUnion(x, y)
    \/ \E x \in UfElements : UfFind(x)
    \/ UfGetClusters

SpecUnionFind == InitUnionFind /\ [][NextUnionFind]_vars

RECURSIVE connected_to(_)
\* the elements joined to those of S through the pairs given to union
connected_to(S) ==
    LET more == S \cup {e \in uf_seen : \E x \in S : <<x, e>> \in uf_pairs \/ <<e, x>> \in uf_pairs}
    IN  IF more = S THEN S ELSE connected_to(more)

\* C24: after any sequence of union calls find(a) = find(b) exactly when a
\* and b are connected through the unioned pairs; get_clusters returns
\* exactly these classes, a partition of all the elements seen; and path
\* compression and union by rank leave every element in its class.
C24_ClassesAreComponents ==
    /\ DOMAIN uf_state.parent = uf_seen
    /\ \A a, b \in uf_seen :
          find(uf_state, a).root = find(uf_state, b).root <=> b \in connected_to({a})
    /\ uf_clusters # <<>> =>
          /\ {Range(uf_clusters[c].value) : c \in DOMAIN uf_clusters}
                = {connected_to({a}) : a \in uf_seen}
          /\ \A c, d \in DOMAIN uf_clusters :
                c # d => Range(uf_clusters[c].value) \cap Range(uf_clusters[d].value) = {}
          /\ \A c \in DOMAIN uf_clusters :
                /\ Len(uf_clusters[c].value) = Cardinality(Range(uf_clusters[c].value))
                /\ \A e \in Range(uf_clusters[c].value) :
                      find(uf_state, e).root = uf_clusters[c].key

\* get_clusters returned a class of three elements, built by a union of
\* equal ranks and a union of different ranks, beside another class
C24_Witness ==
    /\ Len(uf_clusters) >= 2
    /\ \E c \in DOMAIN uf_clusters : Len(uf_clusters[c].value) = 3
    /\ \E e \in uf_seen : uf_state.rank[e] = 1
    /\ Cardinality(uf_pairs) >= 2
====
